---- MODULE Spec2Model ----
(***************************************************************************)
(* Temporal versioning engine of the NASDAQ / Cassandra warehouse:         *)
(* the asset and data-source version chains (create, update, soft-delete,  *)
(* resurrect), the version resolvers, and the time-series ingestion        *)
(* reconciler.  Timestamps are integers; the tables are sets of rows and   *)
(* an INSERT is an upsert on the table's primary key, as in Cassandra.     *)
(***************************************************************************)
EXTENDS Integers, Sequences, FiniteSets, TLC

\* ------------------------------------------------------------------ bounds
\* Greatest wall-clock reading of a run.
MaxClock == 5
\* Greatest asset id that create_asset may allocate.
MaxAssets == 2

\* Greatest data source id that create_data_source may allocate.
MaxSources == 1
\* Business dates are 1..MaxDays.
MaxDays == 2
\* The provider answers one fetch with at most MaxRows rows.
MaxRows == 2
\* Ingestion runs of one behaviour.
MaxRuns == 2

\* --------------------------------------------------------------- constants
\* datetime(9999, 12, 31, 23, 59, 59), written here as year 9999: greater
\* than every clock reading.
FAR_FUTURE_DATE == 9999
\* constants.PROGRESS_UPDATE_INTERVAL
PROGRESS_UPDATE_INTERVAL == 100
\* Python's None in an Optional[datetime] column (a null valid_to).
None == 0

\* The wall clock: datetime.now() never runs backwards.  Later(c) are the
\* readings an operation can make after a store round trip that followed the
\* reading c; Reads(c, horizon) are the readings that can follow c, equal ones
\* included, up to the horizon.
Later(c) == {t \in {c + 1} : t <= MaxClock}
Reads(c, horizon) == {t \in {c, c + 1} : t <= horizon}

AssetIds == 1..MaxAssets
DataSourceIds == 1..MaxSources
\* attributes is a map<text,text>; the model keeps its 'symbol' entry, ""
\* standing for a map without one.
Symbols == {"a", "A"}
Names == {"n1"}
Descriptions == {"d1"}

\* str.upper()
upper(s) == IF s = "a" THEN "A" ELSE s

\* dict.get(key, default)
dict_get(d, key, default) == IF key \in DOMAIN d THEN d[key] ELSE default

\* AssetCreate.dict(): every field present.
AssetCreatePayloads ==
    [name : Names, description : Descriptions, attributes : Symbols \cup {""}]

\* updated_data of update_asset / resurrect_asset: a dict holding any subset
\* of the fields.
AssetUpdatePayloads ==
    {[k \in ks |-> p[k]] : p \in AssetCreatePayloads,
                           ks \in SUBSET {"name", "description", "attributes"}}

\* DataSourceCreate.dict(); provider decides whether ingestion accepts the
\* source ("nasdaq" in provider.lower()).
Providers == {"NASDAQ", "yahoo"}
SourceNames == {"s1"}
DataSourceCreatePayloads ==
    [name : SourceNames, description : Descriptions, provider : Providers, attributes : {""}]

\* updated_data of update_data_source / resurrect_data_source.
DataSourceUpdatePayloads ==
    {[k \in ks |-> p[k]] : p \in DataSourceCreatePayloads,
                           ks \in SUBSET {"name", "description", "provider", "attributes"}}

VARIABLES
    asset,        \* the asset table: a set of rows, keyed by (id, valid_from)
    data_source,  \* the data_source table: a set of rows, keyed by (id, valid_from)
    clock,        \* the latest reading of datetime.now()
    last,         \* the latest operation: its name, key and outcome
    expect,       \* per asset id, the version the latest successful operation left current
    data,         \* the data table: rows keyed by (asset_id, data_source_id, business_date, system_date)
    run,          \* the ingest_nasdaq_data call in progress: its arguments, locals and position
    history,      \* the outcomes of the two latest finished ingest_nasdaq_data calls
    api,          \* the API: session ids issued, responses sent, background tasks created
    callers       \* concurrent callers of the asset repository: each one's operation in progress

vars == <<asset, data_source, clock, last, expect, data, run, history, api, callers>>

\* ------------------------------------------------------- asset repository
\* The Asset dataclass.
Asset(id, name, description, system_date, is_deleted, valid_from, valid_to, attributes) ==
    [id |-> id, name |-> name, description |-> description,
     system_date |-> system_date, is_deleted |-> is_deleted,
     valid_from |-> valid_from, valid_to |-> valid_to, attributes |-> attributes]

\* The row of greatest valid_from (a non-empty set of rows of one key).
latest_row(S) == CHOOSE r \in S : \A q \in S : q.valid_from <= r.valid_from

\* is_currently_valid taking a version to be valid up to and including its
\* valid_to.
is_currently_valid_inclusive(row, current_time) ==
    /\ row.valid_from <= current_time
    /\ (row.valid_to = None \/ row.valid_to = FAR_FUTURE_DATE \/ row.valid_to >= current_time)

\* is_currently_valid without the `valid_to is None` test: a null valid_to
\* compares as not later than any time.
is_currently_valid_sentinel_only(row, current_time) ==
    /\ row.valid_from <= current_time
    /\ (row.valid_to = FAR_FUTURE_DATE \/ row.valid_to > current_time)

\* is_currently_valid of the resolvers.
is_currently_valid(row, current_time) ==
    /\ row.valid_from <= current_time
    /\ (row.valid_to = None \/ row.valid_to = FAR_FUTURE_DATE \/ row.valid_to > current_time)

\* get_asset_by_id without the deletion-marker test.
get_asset_by_id_keeps_marker(rows, asset_id, current_time) ==
    LET valid == {r \in rows : r.id = asset_id /\ is_currently_valid(r, current_time)}
    IN IF valid = {} THEN {} ELSE {latest_row(valid)}

\* get_asset_by_id keeping the first valid row it meets when the rows come
\* oldest first, instead of the one of greatest valid_from.
get_asset_by_id_oldest(rows, asset_id, current_time) ==
    LET valid == {r \in rows : r.id = asset_id /\ is_currently_valid(r, current_time)}
        oldest == CHOOSE r \in valid : \A q \in valid : r.valid_from <= q.valid_from
    IN IF valid = {} THEN {}
       ELSE IF oldest.is_deleted THEN {}
       ELSE {oldest}

\* AssetRepository.get_asset_by_id: {} is Python's None.
get_asset_by_id(rows, asset_id, current_time) ==
    LET valid == {r \in rows : r.id = asset_id /\ is_currently_valid(r, current_time)}
    IN IF valid = {} THEN {}
       ELSE IF latest_row(valid).is_deleted THEN {}
       ELSE {latest_row(valid)}

\* get_all_assets without the filter on deletion markers.
get_all_assets_keeps_markers(rows, current_time) ==
    LET valid(k) == {r \in rows : r.id = k /\ is_currently_valid(r, current_time)}
    IN {latest_row(valid(k)) :
           k \in {r.id : r \in {q \in rows : is_currently_valid(q, current_time)}}}

\* AssetRepository.get_all_assets: per id the currently valid row of greatest
\* valid_from (asset_dict), without the ids whose such row is a deletion
\* marker; the list is modelled by its set of versions.
get_all_assets(rows, current_time) ==
    LET valid(k) == {r \in rows : r.id = k /\ is_currently_valid(r, current_time)}
        asset_dict == {latest_row(valid(k)) :
                          k \in {r.id : r \in {q \in rows : is_currently_valid(q, current_time)}}}
    IN {a \in asset_dict : ~a.is_deleted}

\* mark_deleted's scan of the key's rows for an open deletion marker (the
\* same in AssetRepository and DataSourceRepository).
has_active_deletion(rows, asset_id) ==
    \E record \in rows : /\ record.id = asset_id
                         /\ record.is_deleted
                         /\ (record.valid_to = None \/ record.valid_to = FAR_FUTURE_DATE)

\* AssetRepository.get_asset_by_id_including_deleted
get_asset_by_id_including_deleted(rows, asset_id) ==
    LET mine == {r \in rows : r.id = asset_id}
    IN IF mine = {} THEN {} ELSE {latest_row(mine)}

\* AssetRepository.save_asset: INSERT INTO asset, an upsert on the primary
\* key (id, valid_from).
save_asset(rows, a) ==
    {r \in rows : ~(r.id = a.id /\ r.valid_from = a.valid_from)} \cup {a}

\* AssetRepository.get_next_id: SELECT MAX(id) + 1.
get_next_id(rows) ==
    IF rows = {} THEN 1
    ELSE (CHOOSE m \in {r.id : r \in rows} : \A r \in rows : r.id <= m) + 1

\* AssetRepository.get_active_asset_by_symbol: the rows the scan of
\* "WHERE is_deleted = false" can return first ({} when it returns None).
get_active_asset_by_symbol(rows, symbol) ==
    {r \in rows : /\ ~r.is_deleted
                  /\ r.attributes # ""
                  /\ upper(r.attributes) = upper(symbol)}

\* AssetRepository.get_deleted_asset_by_symbol: the deleted rows of greatest
\* valid_from carrying the symbol; the scan order decides among equal ones.
get_deleted_asset_by_symbol(rows, symbol) ==
    LET del == {r \in rows : /\ r.is_deleted
                             /\ r.attributes # ""
                             /\ upper(r.attributes) = upper(symbol)}
    IN {r \in del : \A q \in del : q.valid_from <= r.valid_from}

\* AssetRepository.get_asset_at_date: the first matching row of the
\* partition, which is clustered by valid_from descending.
get_asset_at_date(rows, asset_id, target_date) ==
    LET hit == {r \in rows : /\ r.id = asset_id
                             /\ r.valid_from <= target_date
                             /\ (r.valid_to = None \/ r.valid_to = FAR_FUTURE_DATE
                                 \/ r.valid_to > target_date)}
    IN IF hit = {} THEN {} ELSE {latest_row(hit)}

\* A lifecycle operation's result: the table afterwards, the outcome and the
\* returned version ({} for none).
Result(rows, out, ret) == [rows |-> rows, out |-> out, ret |-> ret]

\* AssetRepository.mark_deleted: returns silently ("noop") when there is
\* nothing to delete.
mark_deleted(rows, asset_id, current_time, now) ==
    LET cur == get_asset_by_id(rows, asset_id, current_time)
    IN IF cur = {} THEN Result(rows, "noop", {})
       ELSE IF has_active_deletion(rows, asset_id) THEN Result(rows, "noop", {})
       ELSE LET c == CHOOSE r \in cur : TRUE
                closed_current_asset ==
                    Asset(c.id, c.name, c.description, c.system_date, c.is_deleted,
                          c.valid_from, now, c.attributes)
                deleted_asset ==
                    Asset(c.id, c.name, c.description, now, TRUE,
                          now, FAR_FUTURE_DATE, c.attributes)
            IN Result(save_asset(save_asset(rows, closed_current_asset), deleted_asset),
                      "deleted", {})

\* resurrect_asset closing the deletion marker at its own valid_from.
resurrect_asset_empty_close(rows, asset_id, updated_data, now) ==
    LET cur == get_asset_by_id_including_deleted(rows, asset_id)
    IN IF cur = {} THEN Result(rows, "error", {})
       ELSE LET c == CHOOSE r \in cur : TRUE
                closed_deletion_marker ==
                    Asset(c.id, c.name, c.description, c.system_date, TRUE,
                          c.valid_from, c.valid_from, c.attributes)
                resurrected_asset ==
                    Asset(asset_id, dict_get(updated_data, "name", c.name),
                          dict_get(updated_data, "description", c.description),
                          now, FALSE, now, FAR_FUTURE_DATE,
                          dict_get(updated_data, "attributes", c.attributes))
            IN IF ~c.is_deleted THEN Result(rows, "error", {})
               ELSE Result(save_asset(save_asset(rows, closed_deletion_marker),
                                      resurrected_asset),
                           "resurrected", {resurrected_asset})

\* resurrect_asset giving the new version the next free id instead of the
\* deleted asset's id.
resurrect_asset_new_id(rows, asset_id, updated_data, now) ==
    LET cur == get_asset_by_id_including_deleted(rows, asset_id)
    IN IF cur = {} THEN Result(rows, "error", {})
       ELSE LET c == CHOOSE r \in cur : TRUE
                closed_deletion_marker ==
                    Asset(c.id, c.name, c.description, c.system_date, TRUE,
                          c.valid_from, now, c.attributes)
                resurrected_asset ==
                    Asset(get_next_id(rows), dict_get(updated_data, "name", c.name),
                          dict_get(updated_data, "description", c.description),
                          now, FALSE, now, FAR_FUTURE_DATE,
                          dict_get(updated_data, "attributes", c.attributes))
            IN IF ~c.is_deleted THEN Result(rows, "error", {})
               ELSE Result(save_asset(save_asset(rows, closed_deletion_marker),
                                      resurrected_asset),
                           "resurrected", {resurrected_asset})

\* resurrect_asset without the is_deleted test: a live key is "resurrected".
resurrect_asset_unchecked(rows, asset_id, updated_data, now) ==
    LET cur == get_asset_by_id_including_deleted(rows, asset_id)
    IN IF cur = {} THEN Result(rows, "error", {})
       ELSE LET c == CHOOSE r \in cur : TRUE
                closed_deletion_marker ==
                    Asset(c.id, c.name, c.description, c.system_date, TRUE,
                          c.valid_from, now, c.attributes)
                resurrected_asset ==
                    Asset(asset_id, dict_get(updated_data, "name", c.name),
                          dict_get(updated_data, "description", c.description),
                          now, FALSE, now, FAR_FUTURE_DATE,
                          dict_get(updated_data, "attributes", c.attributes))
            IN Result(save_asset(save_asset(rows, closed_deletion_marker),
                                 resurrected_asset),
                      "resurrected", {resurrected_asset})

\* AssetRepository.resurrect_asset
resurrect_asset(rows, asset_id, updated_data, now) ==
    LET cur == get_asset_by_id_including_deleted(rows, asset_id)
    IN IF cur = {} THEN Result(rows, "error", {})
       ELSE LET c == CHOOSE r \in cur : TRUE
                closed_deletion_marker ==
                    Asset(c.id, c.name, c.description, c.system_date, TRUE,
                          c.valid_from, now, c.attributes)
                resurrected_asset ==
                    Asset(asset_id, dict_get(updated_data, "name", c.name),
                          dict_get(updated_data, "description", c.description),
                          now, FALSE, now, FAR_FUTURE_DATE,
                          dict_get(updated_data, "attributes", c.attributes))
            IN IF ~c.is_deleted THEN Result(rows, "error", {})
               ELSE Result(save_asset(save_asset(rows, closed_deletion_marker),
                                      resurrected_asset),
                           "resurrected", {resurrected_asset})

\* update_asset without step 1: the current version is left open.
update_asset_no_close(rows, asset_id, updated_data, current_time, now) ==
    LET cur == get_asset_by_id(rows, asset_id, current_time)
    IN IF cur = {} THEN Result(rows, "error", {})
       ELSE LET c == CHOOSE r \in cur : TRUE
                updated_asset ==
                    Asset(c.id, dict_get(updated_data, "name", c.name),
                          dict_get(updated_data, "description", c.description),
                          now, FALSE, now, FAR_FUTURE_DATE,
                          dict_get(updated_data, "attributes", c.attributes))
            IN Result(save_asset(rows, updated_asset), "updated", {updated_asset})

\* update_asset resolving the key with the deleted versions included: a
\* soft-deleted key is updated instead of refused.
update_asset_of_deleted(rows, asset_id, updated_data, current_time, now) ==
    LET cur == get_asset_by_id_including_deleted(rows, asset_id)
    IN IF cur = {} THEN Result(rows, "error", {})
       ELSE LET c == CHOOSE r \in cur : TRUE
                closed_current_asset ==
                    Asset(c.id, c.name, c.description, c.system_date, c.is_deleted,
                          c.valid_from, now, c.attributes)
                updated_asset ==
                    Asset(c.id, dict_get(updated_data, "name", c.name),
                          dict_get(updated_data, "description", c.description),
                          now, FALSE, now, FAR_FUTURE_DATE,
                          dict_get(updated_data, "attributes", c.attributes))
            IN Result(save_asset(save_asset(rows, closed_current_asset), updated_asset),
                      "updated", {updated_asset})

\* update_asset building the new version from the payload alone: a field the
\* payload lacks is left empty instead of taken from the current version.
update_asset_replaces(rows, asset_id, updated_data, current_time, now) ==
    LET cur == get_asset_by_id(rows, asset_id, current_time)
    IN IF cur = {} THEN Result(rows, "error", {})
       ELSE LET c == CHOOSE r \in cur : TRUE
                closed_current_asset ==
                    Asset(c.id, c.name, c.description, c.system_date, c.is_deleted,
                          c.valid_from, now, c.attributes)
                updated_asset ==
                    Asset(c.id, dict_get(updated_data, "name", ""),
                          dict_get(updated_data, "description", ""),
                          now, FALSE, now, FAR_FUTURE_DATE,
                          dict_get(updated_data, "attributes", ""))
            IN Result(save_asset(save_asset(rows, closed_current_asset), updated_asset),
                      "updated", {updated_asset})

\* AssetRepository.update_asset
update_asset(rows, asset_id, updated_data, current_time, now) ==
    LET cur == get_asset_by_id(rows, asset_id, current_time)
    IN IF cur = {} THEN Result(rows, "error", {})
       ELSE LET c == CHOOSE r \in cur : TRUE
                closed_current_asset ==
                    Asset(c.id, c.name, c.description, c.system_date, c.is_deleted,
                          c.valid_from, now, c.attributes)
                updated_asset ==
                    Asset(c.id, dict_get(updated_data, "name", c.name),
                          dict_get(updated_data, "description", c.description),
                          now, FALSE, now, FAR_FUTURE_DATE,
                          dict_get(updated_data, "attributes", c.attributes))
            IN Result(save_asset(save_asset(rows, closed_current_asset), updated_asset),
                      "updated", {updated_asset})

\* ------------------------------------------------------------ data service
\* DataService.create_asset: the set of results the call can have (the scan
\* order of get_deleted_asset_by_symbol decides among several).
create_asset(rows, asset_data, now) ==
    LET symbol == upper(dict_get(asset_data, "attributes", ""))
        existing_active ==
            IF symbol # "" THEN get_active_asset_by_symbol(rows, symbol) ELSE {}
        deleted == IF symbol # "" THEN get_deleted_asset_by_symbol(rows, symbol) ELSE {}
        new_asset ==
            Asset(get_next_id(rows), asset_data.name, asset_data.description,
                  now, FALSE, now, None, dict_get(asset_data, "attributes", ""))
    IN IF existing_active # {} THEN {Result(rows, "conflict", {})}
       ELSE IF deleted # {}
            THEN {resurrect_asset(rows, d.id, asset_data, now) : d \in deleted}
       ELSE {Result(save_asset(rows, new_asset), "created", {new_asset})}

\* DataService.mark_asset_deleted: raises ("error") when the asset does not
\* resolve, otherwise AssetRepository.mark_deleted.
mark_asset_deleted(rows, asset_id, t0, current_time, now) ==
    IF get_asset_by_id(rows, asset_id, t0) = {} THEN Result(rows, "error", {})
    ELSE mark_deleted(rows, asset_id, current_time, now)

\* ------------------------------------------------- data source repository
\* The DataSource dataclass.
DataSource(id, name, description, system_date, provider, attributes, is_deleted, valid_from, valid_to) ==
    [id |-> id, name |-> name, description |-> description,
     system_date |-> system_date, provider |-> provider, attributes |-> attributes,
     is_deleted |-> is_deleted, valid_from |-> valid_from, valid_to |-> valid_to]

\* DataSourceRepository.get_data_source_by_id
get_data_source_by_id(rows, data_source_id, current_time) ==
    LET valid == {r \in rows : r.id = data_source_id /\ is_currently_valid(r, current_time)}
    IN IF valid = {} THEN {}
       ELSE IF latest_row(valid).is_deleted THEN {}
       ELSE {latest_row(valid)}

\* DataSourceRepository.get_all_data_sources: per id the currently valid row
\* of greatest valid_from (data_source_dict), without the ids whose such row
\* is a deletion marker; the list is modelled by its set of versions.
get_all_data_sources(rows, current_time) ==
    LET valid(k) == {r \in rows : r.id = k /\ is_currently_valid(r, current_time)}
        data_source_dict ==
            {latest_row(valid(k)) :
                k \in {r.id : r \in {q \in rows : is_currently_valid(q, current_time)}}}
    IN {d \in data_source_dict : ~d.is_deleted}

\* DataSourceRepository.get_data_source_by_id_including_deleted
get_data_source_by_id_including_deleted(rows, data_source_id) ==
    LET mine == {r \in rows : r.id = data_source_id}
    IN IF mine = {} THEN {} ELSE {latest_row(mine)}

\* DataSourceRepository.save_data_source: an upsert on (id, valid_from).
save_data_source(rows, ds) ==
    {r \in rows : ~(r.id = ds.id /\ r.valid_from = ds.valid_from)} \cup {ds}

\* DataSourceRepository.get_by_provider: rows[0] of "WHERE provider = %s AND
\* is_deleted = false", which is the first matching row of whichever
\* partition the store scans first (a partition is clustered by valid_from
\* descending); {} is None, also returned when the query raises.
get_by_provider(rows, provider, query_raises) ==
    LET hits == {r \in rows : r.provider = provider /\ ~r.is_deleted}
    IN IF query_raises THEN {}
       ELSE {r \in hits : \A q \in hits : q.id = r.id => q.valid_from <= r.valid_from}

\* DataSourceRepository.get_next_id
get_next_data_source_id(rows) ==
    IF rows = {} THEN 1
    ELSE (CHOOSE m \in {r.id : r \in rows} : \A r \in rows : r.id <= m) + 1

\* DataSourceRepository.get_data_source_at_date
get_data_source_at_date(rows, data_source_id, target_date) ==
    LET hit == {r \in rows : /\ r.id = data_source_id
                             /\ r.valid_from <= target_date
                             /\ (r.valid_to = None \/ r.valid_to = FAR_FUTURE_DATE
                                 \/ r.valid_to > target_date)}
    IN IF hit = {} THEN {} ELSE {latest_row(hit)}

\* DataSourceRepository.mark_deleted
mark_data_source_row_deleted(rows, data_source_id, current_time, now) ==
    LET cur == get_data_source_by_id(rows, data_source_id, current_time)
    IN IF cur = {} THEN Result(rows, "noop", {})
       ELSE IF has_active_deletion(rows, data_source_id) THEN Result(rows, "noop", {})
       ELSE LET c == CHOOSE r \in cur : TRUE
                closed_current_data_source ==
                    DataSource(c.id, c.name, c.description, c.system_date, c.provider,
                               c.attributes, c.is_deleted, c.valid_from, now)
                deleted_data_source ==
                    DataSource(c.id, c.name, c.description, now, c.provider,
                               c.attributes, TRUE, now, FAR_FUTURE_DATE)
            IN Result(save_data_source(save_data_source(rows, closed_current_data_source),
                                       deleted_data_source),
                      "deleted", {})

\* DataSourceRepository.resurrect_data_source
resurrect_data_source(rows, data_source_id, updated_data, now) ==
    LET cur == get_data_source_by_id_including_deleted(rows, data_source_id)
    IN IF cur = {} THEN Result(rows, "error", {})
       ELSE LET c == CHOOSE r \in cur : TRUE
                closed_deletion_marker ==
                    DataSource(c.id, c.name, c.description, c.system_date, c.provider,
                               c.attributes, TRUE, c.valid_from, now)
                resurrected_data_source ==
                    DataSource(data_source_id, dict_get(updated_data, "name", c.name),
                               dict_get(updated_data, "description", c.description),
                               now, dict_get(updated_data, "provider", c.provider),
                               dict_get(updated_data, "attributes", c.attributes),
                               FALSE, now, FAR_FUTURE_DATE)
            IN IF ~c.is_deleted THEN Result(rows, "error", {})
               ELSE Result(save_data_source(save_data_source(rows, closed_deletion_marker),
                                            resurrected_data_source),
                           "resurrected", {resurrected_data_source})

\* update_data_source closing the current version at the time of the
\* resolver's clock reading instead of `now`.
update_data_source_closes_early(rows, data_source_id, updated_data, current_time, now) ==
    LET cur == get_data_source_by_id(rows, data_source_id, current_time)
    IN IF cur = {} THEN Result(rows, "error", {})
       ELSE LET c == CHOOSE r \in cur : TRUE
                closed_current_data_source ==
                    DataSource(c.id, c.name, c.description, c.system_date, c.provider,
                               c.attributes, c.is_deleted, c.valid_from, current_time)
                updated_data_source ==
                    DataSource(c.id, dict_get(updated_data, "name", c.name),
                               dict_get(updated_data, "description", c.description),
                               now, dict_get(updated_data, "provider", c.provider),
                               dict_get(updated_data, "attributes", c.attributes),
                               FALSE, now, FAR_FUTURE_DATE)
            IN Result(save_data_source(save_data_source(rows, closed_current_data_source),
                                       updated_data_source),
                      "updated", {updated_data_source})

\* DataSourceRepository.update_data_source
update_data_source(rows, data_source_id, updated_data, current_time, now) ==
    LET cur == get_data_source_by_id(rows, data_source_id, current_time)
    IN IF cur = {} THEN Result(rows, "error", {})
       ELSE LET c == CHOOSE r \in cur : TRUE
                closed_current_data_source ==
                    DataSource(c.id, c.name, c.description, c.system_date, c.provider,
                               c.attributes, c.is_deleted, c.valid_from, now)
                updated_data_source ==
                    DataSource(c.id, dict_get(updated_data, "name", c.name),
                               dict_get(updated_data, "description", c.description),
                               now, dict_get(updated_data, "provider", c.provider),
                               dict_get(updated_data, "attributes", c.attributes),
                               FALSE, now, FAR_FUTURE_DATE)
            IN Result(save_data_source(save_data_source(rows, closed_current_data_source),
                                       updated_data_source),
                      "updated", {updated_data_source})

\* DataService.create_data_source
create_data_source(rows, ds_create, now) ==
    LET new_data_source ==
            DataSource(get_next_data_source_id(rows), ds_create.name,
                       ds_create.description, now, ds_create.provider,
                       ds_create.attributes, FALSE, now, None)
    IN Result(save_data_source(rows, new_data_source), "created", {new_data_source})

\* DataIngestionService._get_data_source_id: the id of the data source
\* get_by_provider answers, or of a data source created for the provider;
\* one result per row get_by_provider can answer.
_get_data_source_id(rows, provider, query_raises, now) ==
    LET found == get_by_provider(rows, provider, query_raises)
        data_source_id == get_next_data_source_id(rows)
        new_data_source ==
            DataSource(data_source_id, provider, provider, now, provider, "",
                       FALSE, now, FAR_FUTURE_DATE)
    IN IF found # {} THEN {Result(rows, "found", d.id) : d \in found}
       ELSE {Result(save_data_source(rows, new_data_source), "created", data_source_id)}

\* DataService.mark_data_source_deleted
mark_data_source_deleted(rows, data_source_id, t0, current_time, now) ==
    IF get_data_source_by_id(rows, data_source_id, t0) = {} THEN Result(rows, "error", {})
    ELSE mark_data_source_row_deleted(rows, data_source_id, current_time, now)

\* --------------------------------------------------------- data repository
Days == 1..MaxDays

\* The Python values a 'date' cell of the provider's frame can hold: a
\* datetime.date, a datetime.datetime (pandas.Timestamp is one) at midnight of
\* the day, or the text 'YYYY-MM-DD'.
DateTypes == {"date", "datetime", "str"}
PyValue(type, day) == [type |-> type, day |-> day]

\* isinstance(value, date): datetime.datetime is a subclass of datetime.date.
isinstance_date(value) == value.type \in {"date", "datetime"}

\* value.strftime('%Y-%m-%d'): the text naming the day; the store reads it
\* back as that day.
strftime(value) == value.day

\* The Data dataclass; business_date is a Python value.
Data(asset_id, data_source_id, business_date, system_date, is_deleted, valid_from, valid_to) ==
    [asset_id |-> asset_id, data_source_id |-> data_source_id,
     business_date |-> business_date, system_date |-> system_date,
     is_deleted |-> is_deleted, valid_from |-> valid_from, valid_to |-> valid_to]

\* The Data object the repository builds from a stored row: the row's
\* business_date (a day) becomes a datetime.date.
from_row(row) == [row EXCEPT !.business_date = PyValue("date", row.business_date)]

\* INSERT INTO data: an upsert on the primary key
\* ((asset_id, data_source_id), business_date, system_date).
insert_data(rows, row) ==
    {r \in rows : ~(/\ r.asset_id = row.asset_id
                    /\ r.data_source_id = row.data_source_id
                    /\ r.business_date = row.business_date
                    /\ r.system_date = row.system_date)} \cup {row}

\* DataRepository.save: the business date is written as its '%Y-%m-%d' text.
save(rows, d) ==
    insert_data(rows, [d EXCEPT !.business_date =
                          IF isinstance_date(d.business_date)
                          THEN strftime(d.business_date)
                          ELSE d.business_date.day])

\* The rows of one partition.
partition(rows, asset_id, data_source_id) ==
    {r \in rows : r.asset_id = asset_id /\ r.data_source_id = data_source_id}

\* The first of a set of rows of one business date in the table's clustering
\* order (system_date DESC).
first_row(S) == CHOOSE r \in S : \A q \in S : q.system_date <= r.system_date

\* Data objects sorted by business_date, most recent first.
RECURSIVE sort_reverse(_)
sort_reverse(S) ==
    IF S = {} THEN <<>>
    ELSE LET m == CHOOSE x \in S : \A y \in S : y.business_date.day <= x.business_date.day
         IN <<m>> \o sort_reverse(S \ {m})

\* A mutant of get_time_series_data: the versions are not filtered on being
\* currently valid.
get_time_series_data_any_version(asset_rows, rows, asset_id, data_source_id, start_date, end_date, current_time) ==
    IF {a \in asset_rows : a.id = asset_id /\ ~a.is_deleted} = {} THEN <<>>
    ELSE LET valid == {r \in partition(rows, asset_id, data_source_id) :
                          /\ ~r.is_deleted
                          /\ r.business_date >= start_date.day
                          /\ r.business_date <= end_date.day}
             kept(d) == LET of_date == {r \in valid : r.business_date = d}
                            top == {r \in of_date :
                                      \A q \in of_date : q.valid_from <= r.valid_from}
                        IN first_row(top)
         IN sort_reverse({from_row(kept(d)) : d \in {r.business_date : r \in valid}})

\* DataRepository.get_time_series_data (include_deleted = False): [] when no
\* asset row of the id has is_deleted = false; otherwise, per business date of
\* the range, the currently valid row of greatest valid_from (the first in
\* clustering order among equals).
get_time_series_data(asset_rows, rows, asset_id, data_source_id, start_date, end_date, current_time) ==
    IF {a \in asset_rows : a.id = asset_id /\ ~a.is_deleted} = {} THEN <<>>
    ELSE LET valid == {r \in partition(rows, asset_id, data_source_id) :
                          /\ ~r.is_deleted
                          /\ r.business_date >= start_date.day
                          /\ r.business_date <= end_date.day
                          /\ is_currently_valid(r, current_time)}
             kept(d) == LET of_date == {r \in valid : r.business_date = d}
                            top == {r \in of_date :
                                      \A q \in of_date : q.valid_from <= r.valid_from}
                        IN first_row(top)
         IN sort_reverse({from_row(kept(d)) : d \in {r.business_date : r \in valid}})

\* DataRepository.get_data_coverage_period: MIN and MAX of business_date over
\* the scope's rows with is_deleted = false; {} is None, also returned when
\* the query raises.
get_data_coverage_period(rows, asset_id, data_source_id, query_raises) ==
    LET dates == {r.business_date : r \in {q \in partition(rows, asset_id, data_source_id) :
                                               ~q.is_deleted}}
        min_date == CHOOSE d \in dates : \A e \in dates : d <= e
        max_date == CHOOSE d \in dates : \A e \in dates : e <= d
    IN IF query_raises \/ dates = {} THEN {}
       ELSE {<<PyValue("date", min_date), PyValue("date", max_date)>>}

\* DataRepository.get_existing_data_for_date: the first currently valid,
\* non-deleted row of the date ({} is None).
get_existing_data_for_date(rows, asset_id, data_source_id, business_date, current_time) ==
    LET valid == {r \in partition(rows, asset_id, data_source_id) :
                     /\ r.business_date = strftime(business_date)
                     /\ ~r.is_deleted
                     /\ is_currently_valid(r, current_time)}
    IN IF valid = {} THEN {} ELSE {from_row(first_row(valid))}

\* DataRepository._close_existing_data_record: re-inserts the row of the given
\* valid_from with valid_to set.
_close_existing_data_record(rows, asset_id, data_source_id, business_date, existing_valid_from, new_valid_from) ==
    LET found == {r \in partition(rows, asset_id, data_source_id) :
                     /\ r.business_date = strftime(business_date)
                     /\ r.valid_from = existing_valid_from}
    IN IF found = {} THEN rows
       ELSE insert_data(rows, [first_row(found) EXCEPT !.valid_to = new_valid_from])

\* The statement of save_with_temporal_logic at which the store raises: none,
\* the SELECT of get_existing_data_for_date, the close (when there is a row to
\* close), or the INSERT of the new version.
StoreFailures == {"none", "select", "close", "insert"}

\* A mutant of save_with_temporal_logic: a failed INSERT is answered True.
save_with_temporal_logic_hides_failure(rows, d, current_time, failure) ==
    LET existing_data ==
            get_existing_data_for_date(rows, d.asset_id, d.data_source_id,
                                       d.business_date, current_time)
        closed ==
            IF existing_data # {}
            THEN _close_existing_data_record(rows, d.asset_id, d.data_source_id, d.business_date,
                                            (CHOOSE e \in existing_data : TRUE).valid_from,
                                            d.valid_from)
            ELSE rows
    IN IF failure = "select" THEN Result(rows, "error", FALSE)
       ELSE IF failure = "close" /\ existing_data # {} THEN Result(rows, "error", FALSE)
       ELSE IF failure = "insert" THEN Result(closed, "saved", TRUE)
       ELSE Result(save(closed, d), "saved", TRUE)

\* DataRepository.save_with_temporal_logic: True when every statement went
\* through; an exception of any statement is caught and answered with False,
\* the statements before it staying applied.
save_with_temporal_logic(rows, d, current_time, failure) ==
    LET existing_data ==
            get_existing_data_for_date(rows, d.asset_id, d.data_source_id,
                                       d.business_date, current_time)
        closed ==
            IF existing_data # {}
            THEN _close_existing_data_record(rows, d.asset_id, d.data_source_id, d.business_date,
                                            (CHOOSE e \in existing_data : TRUE).valid_from,
                                            d.valid_from)
            ELSE rows
    IN IF failure = "select" THEN Result(rows, "error", FALSE)
       ELSE IF failure = "close" /\ existing_data # {} THEN Result(rows, "error", FALSE)
       ELSE IF failure = "insert" THEN Result(closed, "error", FALSE)
       ELSE Result(save(closed, d), "saved", TRUE)

\* update_valid_to_stmt: UPDATE data SET valid_to = ? WHERE the primary key
\* is the given one.
update_valid_to(rows, asset_id, data_source_id, business_date, system_date, valid_to) ==
    {IF /\ r.asset_id = asset_id
        /\ r.data_source_id = data_source_id
        /\ r.business_date = business_date
        /\ r.system_date = system_date
     THEN [r EXCEPT !.valid_to = valid_to] ELSE r : r \in rows}

\* DataRepository._build_existing_data_map: per business date of the list,
\* the currently valid version found before any batch is written ({} for
\* none).
_build_existing_data_map(rows, data_list, current_time) ==
    [day \in {strftime(data_list[i].business_date) : i \in DOMAIN data_list} |->
        LET d == CHOOSE d \in {data_list[i] : i \in DOMAIN data_list} :
                     strftime(d.business_date) = day
        IN get_existing_data_for_date(rows, d.asset_id, d.data_source_id,
                                      d.business_date, current_time)]

\* DataRepository._add_to_batch, as the statements act when the batch is
\* executed: the valid_to update of the existing version, then the insert.
_add_to_batch(rows, d, existing_data_map, now) ==
    LET existing == existing_data_map[strftime(d.business_date)]
        e == CHOOSE e \in existing : TRUE
        closed == IF existing # {}
                  THEN update_valid_to(rows, e.asset_id, e.data_source_id,
                                       strftime(e.business_date), e.system_date, now)
                  ELSE rows
    IN save(closed, d)

\* DataRepository._process_batch_individually: every row of the batch goes
\* through save_with_temporal_logic, and the rows answered True are counted.
\* rejects[i] says that the store rejects the INSERT of the batch's i-th row.
RECURSIVE _process_batch_individually(_, _, _, _)
_process_batch_individually(rows, batch, rejects, current_time) ==
    IF batch = <<>> THEN Result(rows, "individually", 0)
    ELSE LET res == save_with_temporal_logic(rows, Head(batch), current_time,
                        IF Head(rejects) THEN "insert" ELSE "none")
             rest == _process_batch_individually(res.rows, Tail(batch), Tail(rejects),
                                                 current_time)
         IN Result(rest.rows, "individually", (IF res.ret THEN 1 ELSE 0) + rest.ret)

\* The rows after the statements of a batch were applied together.
RECURSIVE execute_batch(_, _, _, _)
execute_batch(rows, batch, existing_data_map, now) ==
    IF batch = <<>> THEN rows
    ELSE execute_batch(_add_to_batch(rows, Head(batch), existing_data_map, now),
                       Tail(batch), existing_data_map, now)

\* A mutant of _process_batch: a failed batch is given up.
_process_batch_no_fallback(rows, batch, rejects, grouped_fails, existing_data_map, now, current_time) ==
    IF grouped_fails \/ \E i \in DOMAIN rejects : rejects[i]
    THEN Result(rows, "individually", 0)
    ELSE Result(execute_batch(rows, batch, existing_data_map, now), "grouped", Len(batch))

\* DataRepository._process_batch: the grouped write answers the length of
\* the batch; when it raises (a rejected row, or the grouped write itself
\* failing) nothing of it is applied and the rows are processed one by one.
_process_batch(rows, batch, rejects, grouped_fails, existing_data_map, now, current_time) ==
    IF grouped_fails \/ \E i \in DOMAIN rejects : rejects[i]
    THEN _process_batch_individually(rows, batch, rejects, current_time)
    ELSE Result(execute_batch(rows, batch, existing_data_map, now), "grouped", Len(batch))

\* data_list[i:i + batch_size], i counted from 1.
slice(list, i, batch_size) ==
    SubSeq(list, i, IF i + batch_size - 1 < Len(list) THEN i + batch_size - 1 ELSE Len(list))

\* The loop of batch_save_with_temporal_logic from position i on: per batch,
\* how it was written, its length, the rows of it the store rejects and the
\* count it answered; out is that sequence and ret the sum of the counts.
RECURSIVE process_batches(_, _, _, _, _, _, _, _, _)
process_batches(rows, data_list, rejects, failing, i, batch_size, existing_data_map, now, current_time) ==
    IF i > Len(data_list) THEN Result(rows, <<>>, 0)
    ELSE LET batch == slice(data_list, i, batch_size)
             batch_rejects == slice(rejects, i, batch_size)
             res == _process_batch(rows, batch, batch_rejects, i \in failing,
                                   existing_data_map, now, current_time)
             rest == process_batches(res.rows, data_list, rejects, failing,
                                     i + batch_size, batch_size, existing_data_map,
                                     now, current_time)
         IN Result(rest.rows,
                   <<[how |-> res.out, rows |-> Len(batch),
                      rejected |-> Cardinality({j \in DOMAIN batch_rejects : batch_rejects[j]}),
                      count |-> res.ret]>> \o rest.out,
                   res.ret + rest.ret)

\* DataRepository.batch_save_with_temporal_logic: 0 for an empty list;
\* otherwise one clock reading, the map of existing versions, and the batches
\* in order.  `failing` holds the starts of the batches whose grouped write
\* fails for a reason of its own.
batch_save_with_temporal_logic(rows, data_list, rejects, failing, batch_size, now) ==
    IF data_list = <<>> THEN Result(rows, <<>>, 0)
    ELSE process_batches(rows, data_list, rejects, failing, 1, batch_size,
                         _build_existing_data_map(rows, data_list, now), now, now)

\* ------------------------------------------------------- ingestion service
\* DataIngestionService._ensure_date: the isinstance(value, date) test comes
\* first and a datetime passes it, so a datetime is returned as it is; a
\* value of any other type than date, datetime and str raises ValueError.
ValueError == PyValue("ValueError", 0)
\* A 'date' cell that holds no date (None).
BadCell == PyValue("NoneType", 0)

_ensure_date(value) ==
    IF isinstance_date(value) THEN value
    ELSE IF value.type = "datetime" THEN PyValue("date", value.day)
    ELSE IF value.type = "str" THEN PyValue("date", value.day)  \* strptime(value, '%Y-%m-%d').date()
    ELSE ValueError

\* str.lower over the providers of the model.
lower(s) == IF s = "NASDAQ" THEN "nasdaq" ELSE s

\* A mutant of nasdaq_in: every provider passes.
nasdaq_in_any(s) == s = s

\* "nasdaq" in s, over the lowered providers of the model.
nasdaq_in(s) == s = "nasdaq"

\* The frames nasdaqdatalink.get_table can answer for a date range: up to
\* MaxRows rows in any order, dates of the range, repeated dates included; the
\* 'date' column holds values of one Python type of `types`, and `bad`, the
\* cells that hold no date.
Frames(start_date, end_date, types, bad) ==
    UNION {UNION {[1..n -> {PyValue(type, d) : d \in start_date.day..end_date.day} \cup bad] :
                     n \in 0..MaxRows} :
              type \in types}

\* ------------------------------------------------------- lifecycle actions
\* Each action takes `first`, the clock readings its first datetime.now() can
\* return, and `horizon`, the last clock reading explored; no operation starts
\* once the horizon is reached (first = {}).
\* A call whose precondition fails has the same effect for every payload and
\* makes no further clock reading: its remaining inputs are not enumerated.
IfRaises(raises, one, all) == IF raises THEN one ELSE all
\* What an operation leaves in `last`.
Op(name, id, out, sym) == [op |-> name, id |-> id, out |-> out, sym |-> sym]

\* The version a successful operation leaves current for its key.
Expect(res, id) ==
    IF res.out \in {"created", "resurrected", "updated"} THEN [expect EXCEPT ![id] = res.ret]
    ELSE IF res.out = "deleted" THEN [expect EXCEPT ![id] = {}]
    ELSE expect

\* The key a create_asset result is about (0 when it raised before any).
CreatedId(res) == IF res.ret = {} THEN 0 ELSE (CHOOSE r \in res.ret : TRUE).id

CreateAsset(first, horizon) ==
    \E asset_data \in AssetCreatePayloads, now \in first :
      \E res \in create_asset(asset, asset_data, now) :
        /\ res.out = "created" => get_next_id(asset) <= MaxAssets
        /\ asset' = res.rows
        /\ clock' = IF res.out = "conflict" THEN clock ELSE now
        /\ last' = Op("create_asset", CreatedId(res), res.out, asset_data.attributes)
        /\ expect' = IF res.ret = {} THEN expect ELSE Expect(res, CreatedId(res))
        /\ UNCHANGED <<data_source, data, run, history, api, callers>>

UpdateAsset(first, horizon) ==
    \E asset_id \in AssetIds, current_time \in first :
      LET raises == update_asset(asset, asset_id, <<>>, current_time, current_time).out = "error"
      IN \E updated_data \in IfRaises(raises, {<<>>}, AssetUpdatePayloads),
            now \in IfRaises(raises, {current_time}, Reads(current_time, horizon)) :
           LET res == update_asset(asset, asset_id, updated_data, current_time, now)
           IN /\ asset' = res.rows
              /\ clock' = IF res.out = "error" THEN current_time ELSE now
              /\ last' = Op("update_asset", asset_id, res.out, "")
              /\ expect' = Expect(res, asset_id)
              /\ UNCHANGED <<data_source, data, run, history, api, callers>>

MarkDeleted(first, horizon) ==
    \E asset_id \in AssetIds, current_time \in first :
      LET returns == mark_deleted(asset, asset_id, current_time, current_time).out = "noop"
      IN \E now \in IfRaises(returns, {current_time}, Reads(current_time, horizon)) :
           LET res == mark_deleted(asset, asset_id, current_time, now)
           IN /\ asset' = res.rows
              /\ clock' = IF res.out = "deleted" THEN now ELSE current_time
              /\ last' = Op("mark_deleted", asset_id, res.out, "")
              /\ expect' = Expect(res, asset_id)
              /\ UNCHANGED <<data_source, data, run, history, api, callers>>

MarkAssetDeleted(first, horizon) ==
    \E asset_id \in AssetIds, t0 \in first :
      LET raises == mark_asset_deleted(asset, asset_id, t0, t0, t0).out = "error"
      IN \E current_time \in IfRaises(raises, {t0}, Reads(t0, horizon)) :
           \E now \in IfRaises(raises, {t0}, Reads(current_time, horizon)) :
             LET res == mark_asset_deleted(asset, asset_id, t0, current_time, now)
             IN /\ asset' = res.rows
                /\ clock' = IF res.out = "deleted" THEN now
                             ELSE IF res.out = "error" THEN t0 ELSE current_time
                /\ last' = Op("mark_asset_deleted", asset_id, res.out, "")
                /\ expect' = Expect(res, asset_id)
                /\ UNCHANGED <<data_source, data, run, history, api, callers>>

ResurrectAsset(first, horizon) ==
    \E asset_id \in AssetIds :
      LET raises == resurrect_asset(asset, asset_id, <<>>, clock).out = "error"
      IN \E updated_data \in IfRaises(raises, {<<>>}, AssetUpdatePayloads),
            now \in IfRaises(raises, {clock}, first) :
           LET res == resurrect_asset(asset, asset_id, updated_data, now)
           IN /\ first # {}
              /\ asset' = res.rows
              /\ clock' = IF res.out = "error" THEN clock ELSE now
              /\ last' = Op("resurrect_asset", asset_id, res.out, "")
              /\ expect' = Expect(res, asset_id)
              /\ UNCHANGED <<data_source, data, run, history, api, callers>>

CreateDataSource(first, horizon) ==
    \E ds_create \in DataSourceCreatePayloads, now \in first :
      LET res == create_data_source(data_source, ds_create, now)
      IN /\ get_next_data_source_id(data_source) <= MaxSources
         /\ data_source' = res.rows
         /\ clock' = now
         /\ last' = Op("create_data_source", get_next_data_source_id(data_source), res.out, "")
         /\ UNCHANGED <<asset, expect, data, run, history, api, callers>>

UpdateDataSource(first, horizon) ==
    \E id \in DataSourceIds, current_time \in first :
      LET raises == update_data_source(data_source, id, <<>>, current_time, current_time).out = "error"
      IN \E updated_data \in IfRaises(raises, {<<>>}, DataSourceUpdatePayloads),
            now \in IfRaises(raises, {current_time}, Reads(current_time, horizon)) :
           LET res == update_data_source(data_source, id, updated_data, current_time, now)
           IN /\ data_source' = res.rows
              /\ clock' = IF res.out = "error" THEN current_time ELSE now
              /\ last' = Op("update_data_source", id, res.out, "")
              /\ UNCHANGED <<asset, expect, data, run, history, api, callers>>

MarkDataSourceDeleted(first, horizon) ==
    \E id \in DataSourceIds, t0 \in first :
      LET raises == mark_data_source_deleted(data_source, id, t0, t0, t0).out = "error"
      IN \E current_time \in IfRaises(raises, {t0}, Reads(t0, horizon)) :
           \E now \in IfRaises(raises, {t0}, Reads(current_time, horizon)) :
             LET res == mark_data_source_deleted(data_source, id, t0, current_time, now)
             IN /\ data_source' = res.rows
                /\ clock' = IF res.out = "deleted" THEN now
                             ELSE IF res.out = "error" THEN t0 ELSE current_time
                /\ last' = Op("mark_data_source_deleted", id, res.out, "")
                /\ UNCHANGED <<asset, expect, data, run, history, api, callers>>

ResurrectDataSource(first, horizon) ==
    \E id \in DataSourceIds :
      LET raises == resurrect_data_source(data_source, id, <<>>, clock).out = "error"
      IN \E updated_data \in IfRaises(raises, {<<>>}, DataSourceUpdatePayloads),
            now \in IfRaises(raises, {clock}, first) :
           LET res == resurrect_data_source(data_source, id, updated_data, now)
           IN /\ first # {}
              /\ data_source' = res.rows
              /\ clock' = IF res.out = "error" THEN clock ELSE now
              /\ last' = Op("resurrect_data_source", id, res.out, "")
              /\ UNCHANGED <<asset, expect, data, run, history, api, callers>>

\* ---------------------------------------------------------- ingestion run
\* A progress event handed to the progress callback (0 for a field the
\* event does not carry).
Event(stage, processed, total, saved, updated, skipped) ==
    [stage |-> stage, processed |-> processed, total |-> total,
     saved |-> saved, updated |-> updated, skipped |-> skipped]

\* A mutant of send_progress_update: an exception of the callback is raised
\* to the caller.
send_progress_update_propagates(events, progress_data, callback_raises) ==
    [events |-> Append(events, progress_data), raised |-> callback_raises]

\* DataIngestionService.send_progress_update: hands the event to the progress
\* callback; an exception of the callback is caught and logged, so nothing
\* is raised to the caller.
send_progress_update(events, progress_data, callback_raises) ==
    [events |-> Append(events, progress_data), raised |-> FALSE]

\* A mutant of except_fetch_error: the handlers send their events and the
\* call returns normally.
except_fetch_error_returns(events, callback_raises) ==
    LET inner == send_progress_update(events, Event("error", 0, 0, 0, 0, 0), callback_raises)
        outer == send_progress_update(inner.events, Event("error", 0, 0, 0, 0, 0), callback_raises)
    IN [events |-> outer.events, outcome |-> "returned"]

\* The handlers of ingest_nasdaq_data an exception of the fetch goes through:
\* the inner one sends an error event and raises ValueError, the outer one
\* sends an error event and raises again.
except_fetch_error(events, callback_raises) ==
    LET inner == send_progress_update(events, Event("error", 0, 0, 0, 0, 0), callback_raises)
        outer == send_progress_update(inner.events, Event("error", 0, 0, 0, 0, 0), callback_raises)
    IN [events |-> outer.events, outcome |-> "error"]

\* What the surroundings of a run can do: the statements at which the store
\* raises, the cells without a date the provider's frame can hold, whether
\* the provider's fetch raises, whether the progress callback raises (on the
\* events of one step), and the Python types of the frame's dates.
NoFaults ==
    [store |-> {"none"}, cells |-> {}, provider |-> {"ok"}, sink |-> {FALSE},
     types |-> DateTypes]
\* Text dates are left out: they are converted to the datetime.date a date
\* cell holds.
Faults ==
    [store |-> StoreFailures, cells |-> {BadCell}, provider |-> {"ok", "raises"},
     sink |-> BOOLEAN, types |-> {"date", "datetime"}]

\* No ingest_nasdaq_data call is in progress.
Idle ==
    [pc |-> "idle", asset_id |-> 0, data_source_id |-> 0,
     start_date |-> PyValue("date", 0), end_date |-> PyValue("date", 0),
     force_refresh |-> FALSE, df |-> <<>>, index |-> 0, existing_dates |-> {},
     saved_count |-> 0, updated_count |-> 0, skipped_count |-> 0,
     events |-> <<>>, covered |-> {}, inserts |-> 0,
     failed_count |-> 0, fetches |-> 0]

\* What a finished call leaves in history: its arguments, the frame it
\* fetched, its counts, its events, the business dates that had an open
\* version when it started, the number of INSERTs it issued, the number of
\* rows whose date cell held no date or at which the store raised, the
\* number of provider fetches and the error it raised ("" for none).
Finished(r, outcome, raised, events) ==
    [outcome |-> outcome, asset_id |-> r.asset_id, data_source_id |-> r.data_source_id,
     start_date |-> r.start_date, end_date |-> r.end_date,
     force_refresh |-> r.force_refresh, df |-> r.df,
     saved_count |-> r.saved_count, updated_count |-> r.updated_count,
     skipped_count |-> r.skipped_count, events |-> events,
     covered |-> r.covered, inserts |-> r.inserts,
     failed_count |-> r.failed_count, fetches |-> r.fetches, raised |-> raised]

NoRun == Finished(Idle, "none", "", <<>>)

\* history after one more finished call.
Push(finished) ==
    [runs |-> history.runs + 1, last |-> finished, before |-> history.last]

\* The business dates of a partition that have an open, non-deleted version.
CoveredDays(rows, asset_id, data_source_id) ==
    {r.business_date : r \in {q \in partition(rows, asset_id, data_source_id) :
                                 /\ ~q.is_deleted
                                 /\ (q.valid_to = None \/ q.valid_to = FAR_FUTURE_DATE)}}

\* ingest_nasdaq_data up to the row loop: the initial event, the asset, data
\* source, provider and symbol checks, the fetch, and the snapshot of the
\* dates already stored.  The clock readings of the resolvers are compared
\* only with stored timestamps, none of which is later than the clock, so
\* one reading stands for them.  An exception raised before the fetch goes
\* to the outer handler (one error event); one raised by the fetch goes to
\* the inner handler, which sends an error event and raises ValueError to
\* the outer handler, which sends another.
StartIngestionStep(first, env, callback_raises) ==
    /\ run.pc = "idle"
    /\ history.runs < MaxRuns
    /\ \E asset_id \in AssetIds, data_source_id \in DataSourceIds, current_time \in first :
         LET found_asset == get_asset_by_id(asset, asset_id, current_time)
             found_source == get_data_source_by_id(data_source, data_source_id, current_time)
             raised ==
                 IF found_asset = {} THEN "asset not found"
                 ELSE IF found_source = {} THEN "data source not found"
                 ELSE IF ~nasdaq_in(lower((CHOOSE d \in found_source : TRUE).provider))
                 THEN "not a Nasdaq data source"
                 ELSE IF (CHOOSE a \in found_asset : TRUE).attributes = ""
                 THEN "no symbol"
                 ELSE ""
             raises == raised # ""
         IN \E start \in IfRaises(raises, {1}, Days), end \in IfRaises(raises, {1}, Days),
               force_refresh \in IfRaises(raises, {FALSE}, BOOLEAN),
               fetch \in IfRaises(raises, {"ok"}, env.provider) :
              LET start_date == PyValue("date", start)
                  end_date == PyValue("date", end)
                  call == [Idle EXCEPT !.asset_id = asset_id,
                                       !.data_source_id = data_source_id,
                                       !.start_date = start_date,
                                       !.end_date = end_date,
                                       !.force_refresh = force_refresh]
                  fetched == [call EXCEPT !.fetches = 1]
                  started ==
                      send_progress_update(<<>>, Event("initialization", 0, 0, 0, 0, 0), callback_raises)
                  fetching ==
                      send_progress_update(started.events, Event("fetching", 0, 0, 0, 0, 0), callback_raises)
                  handled == except_fetch_error(fetching.events, callback_raises)
                  outer(events) ==
                      send_progress_update(events, Event("error", 0, 0, 0, 0, 0), callback_raises).events
                  fails(r, error, events) ==
                      /\ run' = Idle
                      /\ history' = Push(Finished(r, "error", error, events))
                  existing_data ==
                      get_time_series_data(asset, data, asset_id, data_source_id,
                                           start_date, end_date, current_time)
              IN /\ start <= end
                 /\ clock' = current_time
                 /\ UNCHANGED <<asset, data_source, expect, data, api, callers>>
                 /\ IF started.raised
                    THEN fails(call, "callback", outer(started.events))
                    ELSE IF raises
                    THEN fails(call, raised, outer(started.events))
                    ELSE IF fetching.raised
                    THEN fails(call, "callback", outer(fetching.events))
                    ELSE IF fetch = "raises"
                    THEN /\ run' = Idle
                         /\ history' = Push(Finished(fetched, handled.outcome, "fetch failed",
                                                     handled.events))
                    ELSE \E df \in Frames(start_date, end_date, env.types, env.cells) :
                           IF df = <<>>
                           THEN /\ run' = Idle
                                /\ history' = Push(Finished(fetched, "returned", "",
                                                            fetching.events))
                           ELSE /\ run' = [fetched EXCEPT
                                       !.pc = "processing",
                                       !.df = df,
                                       !.index = 1,
                                       !.existing_dates =
                                           {existing_data[i].business_date :
                                               i \in DOMAIN existing_data},
                                       !.events = fetching.events,
                                       !.covered = CoveredDays(data, asset_id, data_source_id)]
                                /\ UNCHANGED history

\* One iteration of the row loop of ingest_nasdaq_data.  A row whose date
\* cannot be converted raises before the clock is read; the exception is
\* caught by the loop and the next row follows.  A row whose save answers
\* False is logged and counted nowhere.
ProcessRowStep(horizon, env, callback_raises) ==
    /\ run.pc = "processing"
    /\ run.index <= Len(run.df)
    /\ \E now \in Reads(clock, horizon), failure \in env.store :
         LET business_date == _ensure_date(run.df[run.index])
             date_exists == business_date \in run.existing_dates
             new_data == Data(run.asset_id, run.data_source_id, business_date,
                              now, FALSE, now, FAR_FUTURE_DATE)
             res == save_with_temporal_logic(data, new_data, now, failure)
             closes == get_existing_data_for_date(data, run.asset_id, run.data_source_id,
                                                  business_date, now) # {}
             store_raises ==
                 failure = "select" \/ failure = "insert" \/ (failure = "close" /\ closes)
             written ==
                 IF failure = "select" \/ (failure = "close" /\ closes) THEN 0
                 ELSE (IF closes THEN 1 ELSE 0) + (IF failure = "insert" THEN 0 ELSE 1)
             saved_count ==
                 IF ~date_exists /\ res.ret THEN run.saved_count + 1 ELSE run.saved_count
             updated_count ==
                 IF date_exists /\ res.ret THEN run.updated_count + 1 ELSE run.updated_count
             total_processed == saved_count + updated_count + run.skipped_count
             total_records == Len(run.df)
             events ==
                 IF \/ total_processed % PROGRESS_UPDATE_INTERVAL = 0
                    \/ total_processed = total_records
                 THEN send_progress_update(run.events,
                          Event("processing", total_processed, total_records,
                                saved_count, updated_count, run.skipped_count),
                          callback_raises).events
                 ELSE run.events
         IN /\ IF business_date = ValueError
               THEN /\ run' = [run EXCEPT !.index = @ + 1,
                                          !.failed_count =
                                              IF run.df[run.index] = BadCell THEN @ + 1 ELSE @]
                    /\ UNCHANGED <<clock, data>>
               ELSE IF date_exists /\ ~run.force_refresh
               THEN /\ run' = [run EXCEPT !.skipped_count = @ + 1, !.index = @ + 1]
                    /\ clock' = now
                    /\ UNCHANGED data
               ELSE /\ data' = res.rows
                    /\ clock' = now
                    /\ run' = [run EXCEPT !.saved_count = saved_count,
                                          !.updated_count = updated_count,
                                          !.failed_count = IF store_raises THEN @ + 1 ELSE @,
                                          !.index = @ + 1,
                                          !.events = events,
                                          !.inserts = @ + written]
            /\ UNCHANGED <<asset, data_source, expect, history, api, callers>>

\* The end of ingest_nasdaq_data after the last row: the completion event.
\* An exception raised here would go through both handlers.
CompleteIngestionStep(env, callback_raises) ==
    /\ run.pc = "processing"
    /\ run.index > Len(run.df)
    /\ LET complete ==
               send_progress_update(run.events,
                   Event("complete",
                         run.saved_count + run.updated_count + run.skipped_count,
                         Len(run.df), run.saved_count, run.updated_count,
                         run.skipped_count),
                   callback_raises)
           inner == send_progress_update(complete.events,
                                         Event("error", 0, 0, 0, 0, 0), callback_raises)
           outer == send_progress_update(inner.events,
                                         Event("error", 0, 0, 0, 0, 0), callback_raises)
       IN history' = IF complete.raised
                     THEN Push(Finished(run, "error", "callback", outer.events))
                     ELSE Push(Finished(run, "complete", "", complete.events))
    /\ run' = Idle
    /\ UNCHANGED <<asset, data_source, clock, expect, data, api, callers>>

\* What the callback did on the events of the latest step of a run: raised
\* on them, or returned (also when the step sent none).
Callback(raised) ==
    Op("progress_callback", 0, IF raised THEN "raised" ELSE "returned", "")

\* The step sent an event: it ended the call or added to its events.
SentEvent == run'.pc = "idle" \/ run'.events # run.events

StartIngestion(first, env) ==
    \E callback_raises \in env.sink :
        /\ StartIngestionStep(first, env, callback_raises)
        /\ last' = Callback(callback_raises /\ SentEvent)

ProcessRow(horizon, env) ==
    \E callback_raises \in env.sink :
        /\ ProcessRowStep(horizon, env, callback_raises)
        /\ last' = Callback(callback_raises /\ SentEvent)

CompleteIngestion(env) ==
    \E callback_raises \in env.sink :
        /\ CompleteIngestionStep(env, callback_raises)
        /\ last' = Callback(callback_raises /\ SentEvent)

\* What a batch_save_with_temporal_logic call leaves in `last`: its
\* arguments, the rows the store rejected, what each batch answered and the
\* count returned.
BatchOp(data_list, rejects, batch_size, res) ==
    [op |-> "batch_save_with_temporal_logic", id |-> 0, out |-> res.out, sym |-> "",
     data_list |-> data_list, rejects |-> rejects, batch_size |-> batch_size,
     ret |-> res.ret]

\* DataRepository.batch_save_with_temporal_logic on a list of up to MaxRows
\* Data objects of one scope, stamped by the caller at one clock reading,
\* in batches of batch_size.
BatchSave(first, horizon) ==
    /\ run.pc = "idle"
    /\ \E stamp \in first, n \in 0..MaxRows, batch_size \in 1..MaxRows :
         \E days \in [1..n -> Days], rejects \in [1..n -> BOOLEAN],
            failing \in SUBSET {i \in 1..n : (i - 1) % batch_size = 0},
            now \in Reads(stamp, horizon) :
           LET data_list ==
                   [i \in 1..n |-> Data(1, 1, PyValue("date", days[i]), stamp, FALSE,
                                        stamp, FAR_FUTURE_DATE)]
               res == batch_save_with_temporal_logic(data, data_list, rejects, failing,
                                                     batch_size, now)
           IN /\ data' = res.rows
              /\ clock' = now
              /\ last' = BatchOp(data_list, rejects, batch_size, res)
    /\ UNCHANGED <<asset, data_source, expect, run, history, api, callers>>

\* ------------------------------------------------------------ API routes
\* Requests POST /ingest/nasdaq answers.
MaxRequests == 3

\* NasdaqIngestionRequest: the attributes of a validated request object are
\* the fields the model declares.
NasdaqIngestionRequest ==
    [asset_id : AssetIds, data_source_id : DataSourceIds,
     start_date : Days, end_date : Days]

\* request.<name>: the value, or AttributeError ({}) for a name the object
\* does not have.
getattr(request, name) ==
    IF name \in DOMAIN request THEN {request[name]} ELSE {}

\* The answer to a request: the status code, the session id of the body
\* (None when the body has none) and the request it answers.
Response(status_code, session_id, request) ==
    [status_code |-> status_code, session_id |-> session_id, request |-> request]

\* The coroutine handed to asyncio.create_task.
Task(session_id, request, force_refresh) ==
    [session_id |-> session_id, asset_id |-> request.asset_id,
     data_source_id |-> request.data_source_id,
     start_date |-> request.start_date, end_date |-> request.end_date,
     force_refresh |-> force_refresh]

\* POST /ingest/nasdaq: a session id from uuid4, the service, then the
\* arguments of the ingest_nasdaq_data call, evaluated inside the try; an
\* exception other than ValueError is answered with HTTP 500.
PostIngestNasdaq ==
    /\ Len(api.responses) < MaxRequests
    /\ \E request \in NasdaqIngestionRequest :
         LET session_id == api.uuids + 1
             force_refresh == getattr(request, "force_refresh")
         IN api' = IF force_refresh = {}
                   THEN [api EXCEPT !.uuids = session_id,
                                    !.responses = Append(@, Response(500, None, request))]
                   ELSE [api EXCEPT !.uuids = session_id,
                                    !.tasks = @ \cup {Task(session_id, request,
                                                          CHOOSE v \in force_refresh : TRUE)},
                                    !.responses = Append(@, Response(200, session_id, request))]
    /\ UNCHANGED <<asset, data_source, clock, last, expect, data, run, history, callers>>

\* No request has been answered.
NoRequests == [uuids |-> 0, responses |-> <<>>, tasks |-> {}]

\* ------------------------------------------------------ concurrent callers
\* Callers of the asset repository running at the same time.  The store has
\* no transactions: each SELECT and each INSERT of an operation is a step of
\* its own, and steps of other callers can come between any two of them.
\* Concurrent callers.
MaxCallers == 2
Callers == 1..MaxCallers
\* Greatest clock reading of the behaviours of concurrent callers.
RaceClock == 4
\* Calls one caller makes, one after the other.
MaxCalls == 2

\* A caller's frame: the operation, its arguments and locals, and where it
\* stands: "resolved" after the resolving SELECT, "timed" after
\* now = datetime.now(), "checked" after mark_deleted's deletion-marker scan,
\* "closed" after the first save_asset, "done" after the return or raise.
NoCall ==
    [pc |-> "idle", op |-> "", asset_id |-> 0, updated_data |-> <<>>,
     current_asset |-> {}, now |-> 0, out |-> "", calls |-> 0]
NoCallers == [c \in Callers |-> NoCall]

\* updated_data of the racing callers: nothing, another symbol, or none.
RacePayloads ==
    {[k \in ks |-> p[k]] : p \in {q \in AssetCreatePayloads : q.attributes # "A"},
                           ks \in SUBSET {"attributes"}}

\* The caller returns or raises.
Return(frame, out) == [frame EXCEPT !.pc = "done", !.out = out]

\* Step 1 re-inserting the resolved version as it was read, valid_to left at
\* the sentinel.
closed_version_open(frame) == CHOOSE r \in frame.current_asset : TRUE

\* Step 1 of update_asset, mark_deleted and resurrect_asset: the resolved
\* version with valid_to = now (resurrect_asset writes is_deleted=True).
closed_version(frame) ==
    LET c == CHOOSE r \in frame.current_asset : TRUE
    IN Asset(c.id, c.name, c.description, c.system_date,
             IF frame.op = "resurrect_asset" THEN TRUE ELSE c.is_deleted,
             c.valid_from, frame.now, c.attributes)

\* Step 2: the new open version (updated_asset, deleted_asset,
\* resurrected_asset).
opened_version(frame) ==
    LET c == CHOOSE r \in frame.current_asset : TRUE
        now == frame.now
    IN IF frame.op = "mark_deleted"
       THEN Asset(c.id, c.name, c.description, now, TRUE, now, FAR_FUTURE_DATE, c.attributes)
       ELSE Asset(IF frame.op = "resurrect_asset" THEN frame.asset_id ELSE c.id,
                  dict_get(frame.updated_data, "name", c.name),
                  dict_get(frame.updated_data, "description", c.description),
                  now, FALSE, now, FAR_FUTURE_DATE,
                  dict_get(frame.updated_data, "attributes", c.attributes))

\* The call and its resolving SELECT: get_asset_by_id (with its clock
\* reading) for update_asset and mark_deleted,
\* get_asset_by_id_including_deleted for resurrect_asset; a key that does not
\* resolve ends the call (mark_deleted returns, the others raise).
Call(c, ops, horizon) ==
    /\ callers[c].pc \in {"idle", "done"}
    /\ callers[c].calls < MaxCalls
    /\ \E op \in ops, asset_id \in {1} :
       \E current_time \in IF op = "resurrect_asset" THEN {clock} ELSE Reads(clock, horizon) :
         LET current_asset ==
                 IF op = "resurrect_asset"
                 THEN get_asset_by_id_including_deleted(asset, asset_id)
                 ELSE get_asset_by_id(asset, asset_id, current_time)
             refused ==
                 \/ current_asset = {}
                 \/ op = "resurrect_asset" /\ \E r \in current_asset : ~r.is_deleted
         IN \E updated_data \in IF refused \/ op = "mark_deleted" THEN {<<>>} ELSE RacePayloads :
              LET frame == [NoCall EXCEPT !.pc = "resolved", !.op = op,
                                          !.asset_id = asset_id,
                                          !.updated_data = updated_data,
                                          !.current_asset = current_asset,
                                          !.calls = callers[c].calls + 1]
                  out == IF ~refused THEN "" ELSE IF op = "mark_deleted" THEN "noop" ELSE "error"
              IN /\ callers' = [callers EXCEPT ![c] = IF refused THEN Return(frame, out) ELSE frame]
                 /\ clock' = current_time
                 /\ last' = Op(op, asset_id, out, "")
                 /\ UNCHANGED <<asset, data_source, expect, data, run, history, api>>

\* now = datetime.now()
ReadNow(c, horizon) ==
    /\ callers[c].pc = "resolved"
    /\ \E now \in Reads(clock, horizon) :
         /\ callers' = [callers EXCEPT ![c].pc = "timed", ![c].now = now]
         /\ clock' = now
         /\ last' = Op(callers[c].op, callers[c].asset_id, "", "")
         /\ UNCHANGED <<asset, data_source, expect, data, run, history, api>>

\* mark_deleted's scan of the key's rows for an open deletion marker.
CheckMarker(c) ==
    /\ callers[c].pc = "timed"
    /\ callers[c].op = "mark_deleted"
    /\ LET found == has_active_deletion(asset, callers[c].asset_id)
       IN /\ callers' = [callers EXCEPT ![c] = IF found
                                               THEN Return(callers[c], "noop")
                                               ELSE [callers[c] EXCEPT !.pc = "checked"]]
          /\ last' = Op("mark_deleted", callers[c].asset_id,
                        IF found THEN "noop" ELSE "", "")
          /\ UNCHANGED <<asset, data_source, clock, expect, data, run, history, api>>

\* Step 1: save_asset(closed version); save_asset re-raises what the store
\* raises, and so does the operation.
CloseCurrent(c, store) ==
    /\ callers[c].op \in {"update_asset", "mark_deleted", "resurrect_asset"}
    /\ callers[c].pc = IF callers[c].op = "mark_deleted" THEN "checked" ELSE "timed"
    /\ \E raises \in store :
         /\ asset' = IF raises THEN asset ELSE save_asset(asset, closed_version(callers[c]))
         /\ callers' = [callers EXCEPT ![c] = IF raises THEN Return(callers[c], "store error")
                                               ELSE [callers[c] EXCEPT !.pc = "closed"]]
         /\ last' = Op(callers[c].op, callers[c].asset_id, IF raises THEN "store error" ELSE "", "")
         /\ UNCHANGED <<data_source, clock, expect, data, run, history, api>>

\* Step 2: save_asset(new version), and the return.
InsertNew(c, store) ==
    /\ callers[c].pc = "closed"
    /\ \E raises \in store :
         LET out == IF raises THEN "torn"
                    ELSE IF callers[c].op = "update_asset" THEN "updated"
                    ELSE IF callers[c].op = "mark_deleted" THEN "deleted"
                    ELSE "resurrected"
         IN /\ asset' = IF raises THEN asset ELSE save_asset(asset, opened_version(callers[c]))
            /\ callers' = [callers EXCEPT ![c] = Return(callers[c], out)]
            /\ last' = Op(callers[c].op, callers[c].asset_id, out, "")
            /\ UNCHANGED <<data_source, clock, expect, data, run, history, api>>

\* asset_data of the racing creators: without a symbol or with the fixture's
\* symbol in lower case, under two names.
CreateRacePayloads ==
    [name : {"n1", "n2"}, description : Descriptions, attributes : {"", "a"}]

\* DataService.create_asset up to its branch: the two symbol scans; an active
\* asset with the symbol raises, a deleted one hands the call to
\* resurrect_asset ("found"), otherwise the create goes on to read the clock.
CallCreateAsset(c) ==
    /\ callers[c].pc \in {"idle", "done"}
    /\ callers[c].calls < MaxCalls
    /\ \E asset_data \in CreateRacePayloads :
         LET symbol == upper(dict_get(asset_data, "attributes", ""))
             existing_active ==
                 IF symbol # "" THEN get_active_asset_by_symbol(asset, symbol) ELSE {}
             deleted == IF symbol # "" THEN get_deleted_asset_by_symbol(asset, symbol) ELSE {}
             frame == [NoCall EXCEPT !.op = "create_asset", !.updated_data = asset_data,
                                     !.calls = callers[c].calls + 1]
         IN /\ callers' \in
                  IF existing_active # {} THEN {[callers EXCEPT ![c] = Return(frame, "conflict")]}
                  ELSE IF deleted # {}
                       THEN {[callers EXCEPT ![c] = [frame EXCEPT !.op = "resurrect_asset",
                                                                   !.asset_id = d.id,
                                                                   !.pc = "found"]] : d \in deleted}
                  ELSE {[callers EXCEPT ![c] = [frame EXCEPT !.pc = "resolved"]]}
            /\ last' = Op("create_asset", 0, IF existing_active # {} THEN "conflict" ELSE "", "")
            /\ UNCHANGED <<asset, data_source, clock, expect, data, run, history, api>>

\* resurrect_asset called by create_asset: its resolving SELECT.
ResolveFound(c) ==
    /\ callers[c].pc = "found"
    /\ LET current_asset == get_asset_by_id_including_deleted(asset, callers[c].asset_id)
           refused == current_asset = {} \/ \E r \in current_asset : ~r.is_deleted
       IN /\ callers' = [callers EXCEPT ![c] =
                            IF refused THEN Return(callers[c], "error")
                            ELSE [callers[c] EXCEPT !.pc = "resolved",
                                                    !.current_asset = current_asset]]
          /\ last' = Op("resurrect_asset", callers[c].asset_id, IF refused THEN "error" ELSE "", "")
          /\ UNCHANGED <<asset, data_source, clock, expect, data, run, history, api>>

\* asset_id = self.asset_repo.get_next_id(), after now = datetime.now().
AllocateAssetId(c) ==
    /\ callers[c].pc = "timed"
    /\ callers[c].op = "create_asset"
    /\ callers' = [callers EXCEPT ![c].pc = "allocated", ![c].asset_id = get_next_id(asset)]
    /\ last' = Op("create_asset", 0, "", "")
    /\ UNCHANGED <<asset, data_source, clock, expect, data, run, history, api>>

\* save_asset(asset) of create_asset, and the return.
InsertCreatedAsset(c) ==
    /\ callers[c].pc = "allocated"
    /\ callers[c].op = "create_asset"
    /\ LET asset_data == callers[c].updated_data
           now == callers[c].now
       IN asset' = save_asset(asset, Asset(callers[c].asset_id, asset_data.name,
                                           asset_data.description, now, FALSE, now, None,
                                           dict_get(asset_data, "attributes", "")))
    /\ callers' = [callers EXCEPT ![c] = Return(callers[c], "created")]
    /\ last' = Op("create_asset", callers[c].asset_id, "created", "")
    /\ UNCHANGED <<data_source, clock, expect, data, run, history, api>>

\* DataService.create_data_source up to now = datetime.now():
\* data_source_id = get_next_id(); the frame keeps the id in asset_id.
CallCreateDataSource(c) ==
    /\ callers[c].pc \in {"idle", "done"}
    /\ callers[c].calls < MaxCalls
    /\ \E ds_create \in DataSourceCreatePayloads :
         callers' = [callers EXCEPT ![c] =
                        [NoCall EXCEPT !.op = "create_data_source", !.pc = "resolved",
                                       !.updated_data = ds_create,
                                       !.asset_id = get_next_data_source_id(data_source),
                                       !.calls = callers[c].calls + 1]]
    /\ last' = Op("create_data_source", 0, "", "")
    /\ UNCHANGED <<asset, data_source, clock, expect, data, run, history, api>>

\* save_data_source(new_data_source) of create_data_source, and the return.
InsertCreatedDataSource(c) ==
    /\ callers[c].pc = "timed"
    /\ callers[c].op = "create_data_source"
    /\ LET ds_create == callers[c].updated_data
           now == callers[c].now
       IN data_source' = save_data_source(data_source,
                             DataSource(callers[c].asset_id, ds_create.name, ds_create.description,
                                        now, ds_create.provider, ds_create.attributes,
                                        FALSE, now, None))
    /\ callers' = [callers EXCEPT ![c] = Return(callers[c], "created")]
    /\ last' = Op("create_data_source", callers[c].asset_id, "created", "")
    /\ UNCHANGED <<asset, clock, expect, data, run, history, api>>

Init ==
    /\ asset = {}
    /\ data_source = {}
    /\ clock = 1
    /\ last = Op("init", 0, "", "")
    /\ expect = [i \in AssetIds |-> {}]
    /\ data = {}
    /\ run = Idle
    /\ history = [runs |-> 0, last |-> NoRun, before |-> NoRun]
    /\ api = NoRequests
    /\ callers = NoCallers

\* Serialized callers: every operation starts after the previous one's store
\* round trips, at a strictly later clock reading.
Next ==
    \/ CreateAsset(Later(clock), MaxClock)
    \/ UpdateAsset(Later(clock), MaxClock)
    \/ MarkDeleted(Later(clock), MaxClock)
    \/ MarkAssetDeleted(Later(clock), MaxClock)
    \/ ResurrectAsset(Later(clock), MaxClock)
    \/ CreateDataSource(Later(clock), MaxClock)
    \/ UpdateDataSource(Later(clock), MaxClock)
    \/ MarkDataSourceDeleted(Later(clock), MaxClock)
    \/ ResurrectDataSource(Later(clock), MaxClock)

Spec == Init /\ [][Next]_vars

\* Serialized callers on a coarse clock: an operation may read the same clock
\* value as the one before it.
\* Greatest clock reading of the coarse-clock behaviours.
CoarseClock == 3
\* Asset ids the coarse-clock behaviours create.
CoarseAssets == 1

NextCoarse ==
    \/ /\ CreateAsset(Reads(clock, CoarseClock), CoarseClock)
       /\ Cardinality({r.id : r \in asset'}) <= CoarseAssets
    \/ UpdateAsset(Reads(clock, CoarseClock), CoarseClock)
    \/ MarkDeleted(Reads(clock, CoarseClock), CoarseClock)
    \/ MarkAssetDeleted(Reads(clock, CoarseClock), CoarseClock)
    \/ ResurrectAsset(Reads(clock, CoarseClock), CoarseClock)

SpecCoarse == Init /\ [][NextCoarse]_vars

\* Ingestion runs, one after the other, for an asset that carries a symbol
\* and a Nasdaq data source, both created at the first clock reading.
InitIngest ==
    LET created == CHOOSE res \in create_asset({},
                       [name |-> "n1", description |-> "d1", attributes |-> "A"], 1) : TRUE
        source == create_data_source({},
                       CHOOSE p \in DataSourceCreatePayloads : p.provider = "NASDAQ", 1)
    IN /\ asset = created.rows
       /\ data_source = source.rows
       /\ clock = 1
       /\ last = Op("create_data_source", 1, source.out, "")
       /\ expect = [i \in AssetIds |-> IF i = 1 THEN created.ret ELSE {}]
       /\ data = {}
       /\ run = Idle
       /\ history = [runs |-> 0, last |-> NoRun, before |-> NoRun]
       /\ api = NoRequests
       /\ callers = NoCallers

NextIngest ==
    \/ StartIngestion(Reads(clock, MaxClock), NoFaults)
    \/ ProcessRow(MaxClock, NoFaults)
    \/ CompleteIngestion(NoFaults)

SpecIngest == InitIngest /\ [][NextIngest]_vars

\* Ingestion runs in surroundings that fail, over every kind of scope a call
\* can find: the asset live with or without a symbol or soft-deleted (asset
\* id 2 is never created), the data source absent, live with a Nasdaq or
\* another provider, or soft-deleted.  Rows are created at clock reading 1
\* and deleted at 2.
AssetFixtures ==
    LET created(symbol) ==
            (CHOOSE res \in create_asset({},
                 [name |-> "n1", description |-> "d1", attributes |-> symbol], 1) : TRUE).rows
    IN {created("A"), created(""), mark_deleted(created("A"), 1, 2, 2).rows}

DataSourceFixtures ==
    LET created(provider) ==
            create_data_source({},
                [name |-> "s1", description |-> "d1", provider |-> provider,
                 attributes |-> ""], 1).rows
    IN {{}, created("NASDAQ"), created("yahoo"),
        mark_data_source_row_deleted(created("NASDAQ"), 1, 2, 2).rows}

InitFaults ==
    /\ asset \in AssetFixtures
    /\ data_source \in DataSourceFixtures
    /\ clock = 2
    /\ last = Op("init", 0, "", "")
    /\ expect = [i \in AssetIds |-> {}]
    /\ data = {}
    /\ run = Idle
    /\ history = [runs |-> 0, last |-> NoRun, before |-> NoRun]
    /\ api = NoRequests
    /\ callers = NoCallers

\* Greatest clock reading of the behaviours with failing surroundings.
FaultClock == 3

NextFaults ==
    \/ StartIngestion(Reads(clock, FaultClock), Faults)
    \/ ProcessRow(FaultClock, Faults)
    \/ CompleteIngestion(Faults)

SpecFaults == InitFaults /\ [][NextFaults]_vars

\* Batch saves, one after the other, into the data table of the scope.
\* Greatest clock reading of the batch-save behaviours.
BatchClock == 2

NextBatch == BatchSave(Reads(clock, BatchClock), BatchClock)

SpecBatch == InitIngest /\ [][NextBatch]_vars

\* The ingestion start route answering requests.
NextApi == PostIngestNasdaq

SpecApi == InitIngest /\ [][NextApi]_vars

\* Ingestion runs for an asset that is soft-deleted and resurrected between
\* and during the runs.  The provider's frames hold datetime.date values.
DateFrames == [NoFaults EXCEPT !.types = {"date"}]
\* Greatest clock reading of these behaviours.
ReviveClock == 3

NextRevive ==
    \/ StartIngestion(Reads(clock, ReviveClock), DateFrames)
    \/ ProcessRow(ReviveClock, DateFrames)
    \/ CompleteIngestion(DateFrames)
    \/ MarkDeleted({t \in Later(clock) : t <= ReviveClock}, ReviveClock)
    \/ ResurrectAsset({t \in Later(clock) : t <= ReviveClock}, ReviveClock)

SpecRevive == InitIngest /\ [][NextRevive]_vars

\* Callers of the repository start on an asset that is live or soft-deleted
\* (created at clock reading 1, deleted at 2), at a later clock reading.
InitRace ==
    /\ asset \in {rows \in AssetFixtures : \E r \in rows : r.attributes = "A"}
    /\ data_source = {}
    /\ clock = 3
    /\ last = Op("init", 0, "", "")
    /\ expect = [i \in AssetIds |-> {}]
    /\ data = {}
    /\ run = Idle
    /\ history = [runs |-> 0, last |-> NoRun, before |-> NoRun]
    /\ api = NoRequests
    /\ callers = NoCallers

\* Two callers updating the asset at the same time.
NextRaceUpdate ==
    \E c \in Callers :
        \/ Call(c, {"update_asset"}, RaceClock)
        \/ ReadNow(c, RaceClock)
        \/ CloseCurrent(c, {FALSE})
        \/ InsertNew(c, {FALSE})

SpecRaceUpdate == InitRace /\ [][NextRaceUpdate]_vars

\* Callers updating, soft-deleting and resurrecting the asset at the same time.
NextRace ==
    \E c \in Callers :
        \/ Call(c, {"update_asset", "mark_deleted", "resurrect_asset"}, RaceClock)
        \/ ReadNow(c, RaceClock)
        \/ CheckMarker(c)
        \/ CloseCurrent(c, {FALSE})
        \/ InsertNew(c, {FALSE})

SpecRace == InitRace /\ [][NextRace]_vars

\* Two callers soft-deleting the asset at the same time.
NextRaceDelete ==
    \E c \in Callers :
        \/ Call(c, {"mark_deleted"}, RaceClock)
        \/ ReadNow(c, RaceClock)
        \/ CheckMarker(c)
        \/ CloseCurrent(c, {FALSE})
        \/ InsertNew(c, {FALSE})

SpecRaceDelete == InitRace /\ [][NextRaceDelete]_vars

\* Rows of the long frames: one more than PROGRESS_UPDATE_INTERVAL, so that
\* the count of processed rows passes the interval before the last row.
LongRows == 101
\* The clock reading of the long runs.
LongClock == 2

\* The row loop entered with a frame of LongRows rows: its first `stored`
\* rows carry day 1 and the others day 2 (the provider's frame may repeat
\* dates), day 1 is stored already or not, and the call forces a refresh or
\* not.  The run has sent its initialization and fetching events.
InitLong ==
    LET created == CHOOSE res \in create_asset({},
                       [name |-> "n1", description |-> "d1", attributes |-> "A"], 1) : TRUE
        source == create_data_source({},
                       CHOOSE p \in DataSourceCreatePayloads : p.provider = "NASDAQ", 1)
        start_date == PyValue("date", 1)
        end_date == PyValue("date", 2)
    IN /\ asset = created.rows
       /\ data_source = source.rows
       /\ clock = LongClock
       /\ last = Op("init", 0, "", "")
       /\ expect = [i \in AssetIds |-> IF i = 1 THEN created.ret ELSE {}]
       /\ data \in {{}, save({}, Data(1, 1, start_date, 1, FALSE, 1, FAR_FUTURE_DATE))}
       /\ history = [runs |-> 0, last |-> NoRun, before |-> NoRun]
       /\ api = NoRequests
       /\ callers = NoCallers
       /\ \E stored \in {0, 1, PROGRESS_UPDATE_INTERVAL - 1, PROGRESS_UPDATE_INTERVAL, LongRows},
             force_refresh \in BOOLEAN :
            LET existing_data == get_time_series_data(asset, data, 1, 1, start_date, end_date, clock)
                started == send_progress_update(<<>>, Event("initialization", 0, 0, 0, 0, 0), FALSE)
                fetching == send_progress_update(started.events,
                                                 Event("fetching", 0, 0, 0, 0, 0), FALSE)
            IN run = [Idle EXCEPT !.pc = "processing",
                                  !.asset_id = 1,
                                  !.data_source_id = 1,
                                  !.start_date = start_date,
                                  !.end_date = end_date,
                                  !.force_refresh = force_refresh,
                                  !.fetches = 1,
                                  !.df = [i \in 1..LongRows |->
                                             PyValue("date", IF i <= stored THEN 1 ELSE 2)],
                                  !.index = 1,
                                  !.existing_dates = {existing_data[i].business_date :
                                                         i \in DOMAIN existing_data},
                                  !.events = fetching.events,
                                  !.covered = CoveredDays(data, 1, 1)]

NextLong ==
    \/ ProcessRow(LongClock, NoFaults)
    \/ CompleteIngestion(NoFaults)

SpecLong == InitLong /\ [][NextLong]_vars

\* Greatest valid_from of the row sets of InitSentinel; their closed rows
\* end at the reading after it.
SentinelClock == 2

\* Row sets of one asset and one data partition whose rows store valid_to as
\* null (create_asset), as FAR_FUTURE_DATE (the other writers) or as a
\* timestamp, at most one row per primary key.
InitSentinel ==
    LET ends == {None, FAR_FUTURE_DATE, SentinelClock + 1}
        asset_rows == {Asset(1, "n1", "d1", t, d, t, e, "A") :
                          t \in 1..SentinelClock, d \in BOOLEAN, e \in ends}
        data_rows == {Data(1, 1, 1, t, FALSE, t, e) : t \in 1..SentinelClock, e \in ends}
    IN /\ asset \in {rows \in SUBSET asset_rows :
                        \A r \in rows, q \in rows : r.valid_from = q.valid_from => r = q}
       /\ data \in {rows \in SUBSET data_rows :
                       \A r \in rows, q \in rows : r.valid_from = q.valid_from => r = q}
       /\ data_source = {}
       /\ clock = SentinelClock + 1
       /\ last = Op("init", 0, "", "")
       /\ expect = [i \in AssetIds |-> {}]
       /\ run = Idle
       /\ history = [runs |-> 0, last |-> NoRun, before |-> NoRun]
       /\ api = NoRequests
       /\ callers = NoCallers

\* The other representation of an open row's valid_to.
other_representation(row) ==
    [row EXCEPT !.valid_to = IF @ = None THEN FAR_FUTURE_DATE ELSE None]

\* One open asset row is stored with the other representation.
ReplaceAssetValidTo ==
    \E row \in {r \in asset : r.valid_to = None \/ r.valid_to = FAR_FUTURE_DATE} :
        /\ asset' = (asset \ {row}) \cup {other_representation(row)}
        /\ last' = Op("replace_valid_to", row.id, "asset", "")
        /\ UNCHANGED <<data_source, clock, expect, data, run, history, api, callers>>

\* One open data row is stored with the other representation.
ReplaceDataValidTo ==
    \E row \in {r \in data : r.valid_to = None \/ r.valid_to = FAR_FUTURE_DATE} :
        /\ data' = (data \ {row}) \cup {other_representation(row)}
        /\ last' = Op("replace_valid_to", row.asset_id, "data", "")
        /\ UNCHANGED <<asset, data_source, clock, expect, run, history, api, callers>>

NextSentinel == ReplaceAssetValidTo \/ ReplaceDataValidTo

SpecSentinel == InitSentinel /\ [][NextSentinel]_vars

\* Creators start on the tables of InitRace or on an asset whose deletion
\* marker was written at the clock reading of its creation, so that the
\* marker is the key's only row and carries the symbol.
InitRaceCreate ==
    /\ asset \in {rows \in AssetFixtures : \E r \in rows : r.attributes = "A"}
                 \cup {mark_deleted(rows, 1, 1, 1).rows :
                          rows \in {t \in AssetFixtures : \A r \in t : r.attributes = "A" /\ ~r.is_deleted}}
    /\ data_source = {}
    /\ clock = 3
    /\ last = Op("init", 0, "", "")
    /\ expect = [i \in AssetIds |-> {}]
    /\ data = {}
    /\ run = Idle
    /\ history = [runs |-> 0, last |-> NoRun, before |-> NoRun]
    /\ api = NoRequests
    /\ callers = NoCallers

\* Two callers creating assets and data sources at the same time; a
\* create_asset that finds the symbol soft-deleted goes on as resurrect_asset.
NextRaceCreate ==
    \E c \in Callers :
        \/ CallCreateAsset(c)
        \/ ResolveFound(c)
        \/ ReadNow(c, RaceClock)
        \/ AllocateAssetId(c)
        \/ InsertCreatedAsset(c)
        \/ CloseCurrent(c, {FALSE})
        \/ InsertNew(c, {FALSE})
        \/ CallCreateDataSource(c)
        \/ InsertCreatedDataSource(c)

SpecRaceCreate == InitRaceCreate /\ [][NextRaceCreate]_vars

\* The same operations against a store whose INSERTs can fail.
NextTorn ==
    \E c \in Callers :
        \/ Call(c, {"update_asset", "mark_deleted", "resurrect_asset"}, RaceClock)
        \/ ReadNow(c, RaceClock)
        \/ CheckMarker(c)
        \/ CloseCurrent(c, BOOLEAN)
        \/ InsertNew(c, BOOLEAN)

SpecTorn == InitRace /\ [][NextTorn]_vars

\* ------------------------------------------------------------ vocabulary
\* The rows of one logical key.
RowsOf(table, k) == {r \in table : r.id = k}

\* An open version: valid_to is the sentinel or absent.
IsOpen(r) == r.valid_to = None \/ r.valid_to = FAR_FUTURE_DATE

OpenRowsOf(table, k) == {r \in RowsOf(table, k) : IsOpen(r)}

\* The end of a version's validity interval, the sentinel standing for "never".
EndOf(r) == IF IsOpen(r) THEN FAR_FUTURE_DATE ELSE r.valid_to

\* Some asset's open, non-deleted version carries the symbol (case-insensitively).
OpenActiveWithSymbol(rows, sym) ==
    \E r \in rows : /\ IsOpen(r)
                    /\ ~r.is_deleted
                    /\ r.attributes # ""
                    /\ upper(r.attributes) = upper(sym)

\* The ids of the assets whose open version is a deletion marker carrying the symbol.
SoftDeletedWithSymbol(rows, sym) ==
    {r.id : r \in {q \in rows : /\ IsOpen(q)
                                /\ q.is_deleted
                                /\ q.attributes # ""
                                /\ upper(q.attributes) = upper(sym)}}

\* What a point-in-time query identifies a version by.
Version(found) ==
    {[valid_from |-> r.valid_from, name |-> r.name, description |-> r.description,
      attributes |-> r.attributes, is_deleted |-> r.is_deleted] : r \in found}

SourceVersion(found) ==
    {[valid_from |-> r.valid_from, name |-> r.name, description |-> r.description,
      provider |-> r.provider, attributes |-> r.attributes,
      is_deleted |-> r.is_deleted] : r \in found}

Succeeded == last.out \in {"created", "updated", "deleted", "resurrected"}

\* ------------------------------------------------------------------ claims
\* C1: after every step of a serialized sequence of create_asset, update_asset,
\* mark_deleted and resurrect_asset, every asset id that has rows has exactly
\* one open version (valid_to the sentinel or absent): never two, never zero.
C1_ExactlyOneOpenVersion ==
    \A k \in AssetIds :
        RowsOf(asset, k) # {} => Cardinality(OpenRowsOf(asset, k)) = 1

\* C1 witness: create, update, mark_deleted and resurrect have all acted on one key.
C1_Witness ==
    /\ last.op = "resurrect_asset"
    /\ last.out = "resurrected"
    /\ Cardinality(RowsOf(asset, last.id)) = 4
    /\ \E r \in RowsOf(asset, last.id) : r.is_deleted /\ ~IsOpen(r)

\* C2: after every step, get_asset_by_id returns the version written by the
\* latest successful create / update / resurrect on the key, and None when the
\* latest successful operation on it was mark_deleted.
C2_ResolveCurrentMatchesLastWrite ==
    \A k \in AssetIds :
        \A current_time \in {clock, clock + 1} :
            get_asset_by_id(asset, k, current_time) = expect[k]

\* C2 witness: a key that was updated and then soft-deleted resolves to None.
C2_Witness ==
    /\ last.op = "mark_deleted"
    /\ last.out = "deleted"
    /\ Cardinality(RowsOf(asset, last.id)) = 3
    /\ expect[last.id] = {}
    /\ \E k \in AssetIds : k # last.id /\ expect[k] # {}

\* C3: create_asset with a symbol whose asset is soft-deleted (and that no open
\* non-deleted version carries) is redirected to resurrect: it returns an open
\* non-deleted version of the deleted asset's id, allocating no new id and
\* raising no conflict.
C3_CreateResurrectsDeleted ==
    [][(/\ last'.op = "create_asset"
        /\ SoftDeletedWithSymbol(asset, last'.sym) # {}
        /\ ~OpenActiveWithSymbol(asset, last'.sym))
       => (/\ last'.out = "resurrected"
           /\ last'.id \in SoftDeletedWithSymbol(asset, last'.sym)
           /\ {r.id : r \in asset'} = {r.id : r \in asset}
           /\ \E r \in OpenRowsOf(asset', last'.id) : ~r.is_deleted)]_vars

\* C4: create_asset fails with a conflict if and only if some asset's open,
\* non-deleted version carries the symbol (case-insensitively); closed
\* historical versions do not count.
C4_ConflictIffOpenActiveSymbol ==
    [][last'.op = "create_asset"
       => (last'.out = "conflict" <=> OpenActiveWithSymbol(asset, last'.sym))]_vars

\* A step of update, mark_deleted or resurrect that wrote to the asset table.
AssetLifecycleStep ==
    /\ last'.out \in {"updated", "deleted", "resurrected"}
    /\ asset' # asset

\* Closed rows of the key survive unchanged and the key loses no row.
HistoryKept(old, new, k) ==
    /\ {r \in RowsOf(old, k) : ~IsOpen(r)} \subseteq RowsOf(new, k)
    /\ Cardinality(RowsOf(new, k)) >= Cardinality(RowsOf(old, k))

\* The only changes to the key: valid_to of the open row rewritten to `now`,
\* and one row added whose valid_from no earlier row of the key has.
CloseAndAppend(old, new, k, now) ==
    \E o \in OpenRowsOf(old, k) :
        \E n \in RowsOf(new, k) :
            /\ n.valid_from \notin {r.valid_from : r \in RowsOf(old, k)}
            /\ RowsOf(new, k)
                 = (RowsOf(old, k) \ {o}) \cup {[o EXCEPT !.valid_to = now]} \cup {n}

\* C5: with non-decreasing clock readings, every update,
\* mark_deleted and resurrect keeps the closed rows, never lowers the row
\* count, and changes only valid_to of the open row while adding one row with
\* an unused valid_from.
C5_AppendOnlyNonDecreasing ==
    [][AssetLifecycleStep =>
          /\ HistoryKept(asset, asset', last'.id)
          /\ CloseAndAppend(asset, asset', last'.id, clock')]_vars

\* C6: every open version row has valid_to equal to the far-future sentinel;
\* no row is written with an absent valid_to.
C6_OpenRowsCarrySentinel ==
    \A r \in asset \cup data_source : IsOpen(r) => r.valid_to = FAR_FUTURE_DATE

\* The validity intervals of one key's rows do not overlap, and every closed
\* version ends where the next version by valid_from starts.
ChainOf(rows) ==
    /\ \A r1 \in rows : \A r2 \in rows :
          r1 # r2 => ~(r1.valid_from < EndOf(r2) /\ r2.valid_from < EndOf(r1))
    /\ \A r \in rows :
          ~IsOpen(r) =>
              \E s \in rows : /\ s.valid_from = r.valid_to
                              /\ s.valid_from > r.valid_from
                              /\ ~\E q \in rows : /\ q.valid_from > r.valid_from
                                                  /\ q.valid_from < s.valid_from

\* C7: after any serialized sequence of lifecycle operations, the validity
\* intervals [valid_from, valid_to) of a key's versions are pairwise
\* non-overlapping and each closed version's valid_to equals the valid_from of
\* the version that succeeded it (assets and data sources).
C7_IntervalsChain ==
    /\ \A k \in AssetIds : ChainOf(RowsOf(asset, k))
    /\ \A k \in DataSourceIds : ChainOf(RowsOf(data_source, k))

\* C7 witness: an asset and a data source each have a closed and an open version.
C7_Witness ==
    /\ \E k \in AssetIds : Cardinality(RowsOf(asset, k)) = 2
    /\ \E k \in DataSourceIds : Cardinality(RowsOf(data_source, k)) = 2

\* C8: get_asset_at_date(key, t) and get_data_source_at_date(key, t) return
\* the same version (valid_from, payload, is_deleted) before and after any
\* lifecycle operation executed at a time later than t.
C8_PointInTimeStable ==
    [][/\ asset' # asset =>
             \A k \in AssetIds, t \in 1..(clock' - 1) :
                 Version(get_asset_at_date(asset', k, t))
                     = Version(get_asset_at_date(asset, k, t))
       /\ data_source' # data_source =>
             \A k \in DataSourceIds, t \in 1..(clock' - 1) :
                 SourceVersion(get_data_source_at_date(data_source', k, t))
                     = SourceVersion(get_data_source_at_date(data_source, k, t))]_vars

\* C8 witness: a key was soft-deleted and resurrected, and a query at an
\* earlier instant still finds the version that was current then.
C8_Witness ==
    /\ last.out = "resurrected"
    /\ \E t \in 1..MaxClock :
          /\ t < clock
          /\ get_asset_at_date(asset, last.id, t) # {}
          /\ \E r \in get_asset_at_date(asset, last.id, t) : ~IsOpen(r) /\ ~r.is_deleted

\* The two latest calls completed, ran without force_refresh, and had the same
\* scope and the same external rows.
RepeatedWithoutRefresh ==
    /\ history.before.outcome = "complete"
    /\ history.last.outcome = "complete"
    /\ ~history.before.force_refresh
    /\ ~history.last.force_refresh
    /\ history.last.asset_id = history.before.asset_id
    /\ history.last.data_source_id = history.before.data_source_id
    /\ history.last.start_date = history.before.start_date
    /\ history.last.end_date = history.before.end_date
    /\ history.last.df = history.before.df

\* C9: two ingest_nasdaq_data runs in a row with force_refresh=false, the same
\* scope and the same external rows give updated=0 in both, saved=0 in the
\* second, a second skipped count equal to the first saved count, and the
\* second run writes no row.
C9_RepeatedIngestionIdempotent ==
    RepeatedWithoutRefresh =>
        /\ history.before.updated_count = 0
        /\ history.last.updated_count = 0
        /\ history.last.saved_count = 0
        /\ history.last.skipped_count = history.before.saved_count
        /\ history.last.inserts = 0

\* The business dates of a frame.
DaysOf(df) == {df[i].day : i \in DOMAIN df}

\* C10: a completed ingest_nasdaq_data run with force_refresh=true reports as
\* updated the number of business dates that are in the external rows and had
\* a current version when it started, and as saved the number of external
\* dates that had none.
C10_ForceRefreshCounts ==
    (history.last.outcome = "complete" /\ history.last.force_refresh) =>
        /\ history.last.updated_count
             = Cardinality(DaysOf(history.last.df) \cap history.last.covered)
        /\ history.last.saved_count
             = Cardinality(DaysOf(history.last.df) \ history.last.covered)

\* The open, non-deleted versions of one business date of a partition.
OpenVersions(rows, asset_id, data_source_id, day) ==
    {r \in partition(rows, asset_id, data_source_id) :
        r.business_date = day /\ ~r.is_deleted /\ IsOpen(r)}

\* Every business date of the partition that has a row has exactly one open,
\* non-deleted version.
OneOpenVersionPerDate(rows, asset_id, data_source_id) ==
    \A day \in {r.business_date : r \in partition(rows, asset_id, data_source_id)} :
        Cardinality(OpenVersions(rows, asset_id, data_source_id, day)) = 1

\* The version `old` is in `rows` with the same timestamps and payload, closed
\* at `now`.
ClosedAt(rows, old, now) == [old EXCEPT !.valid_to = now] \in rows

\* C11: after every row an ingest_nasdaq_data run writes (force_refresh true
\* or false, no store failure), every business date of the scope that has a
\* row has exactly one open, non-deleted version, and the version of the
\* written date that was open before is still stored, closed with valid_to
\* equal to the new version's valid_from.
C11_OneOpenVersionPerDate ==
    [][(run.pc = "processing" /\ run'.pc = "processing" /\ run'.inserts # run.inserts) =>
          LET day == strftime(_ensure_date(run.df[run.index]))
          IN /\ OneOpenVersionPerDate(data', run.asset_id, run.data_source_id)
             /\ \A old \in OpenVersions(data, run.asset_id, run.data_source_id, day) :
                   ClosedAt(data', old, clock')]_vars

\* C12: a completed ingest_nasdaq_data run whose external rows repeat a
\* business date counts each distinct business date at most once in saved
\* plus updated, and leaves exactly one open version of every external date.
C12_RepeatedDatesCountedOnce ==
    history.last.outcome = "complete" =>
        /\ history.last.saved_count + history.last.updated_count
             <= Cardinality(DaysOf(history.last.df))
        /\ \A day \in DaysOf(history.last.df) :
              Cardinality(OpenVersions(data, history.last.asset_id,
                                       history.last.data_source_id, day)) = 1

\* C13: in batch_save_with_temporal_logic, a batch whose grouped write fails
\* is re-applied row by row and answers the number of its rows that the
\* store did not reject (n-1 for one rejected row among n); a batch whose
\* grouped write goes through answers its length; the call returns the sum.
C13_FailedBatchCountsCommittedRows ==
    last.op = "batch_save_with_temporal_logic" =>
        /\ \A i \in DOMAIN last.out :
              /\ last.out[i].how = "individually" =>
                     last.out[i].count = last.out[i].rows - last.out[i].rejected
              /\ last.out[i].how = "grouped" =>
                     last.out[i].rejected = 0 /\ last.out[i].count = last.out[i].rows
        /\ last.ret = Cardinality({i \in DOMAIN last.rejects : ~last.rejects[i]})
        /\ \A i \in DOMAIN last.data_list :
              ~last.rejects[i] =>
                 \E r \in data : /\ r.business_date = strftime(last.data_list[i].business_date)
                                 /\ r.system_date = last.data_list[i].system_date

\* A batch of two rows failed with exactly one rejected row and answered 1.
C13_Witness ==
    /\ last.op = "batch_save_with_temporal_logic"
    /\ \E i \in DOMAIN last.out :
          /\ last.out[i].how = "individually"
          /\ last.out[i].rows = 2
          /\ last.out[i].rejected = 1
          /\ last.out[i].count = 1

\* The positions of the terminal events (stage complete or error) of a run.
TerminalEvents(events) ==
    {i \in DOMAIN events : events[i].stage \in {"complete", "error"}}

\* C14: every finished ingest_nasdaq_data run has handed exactly one terminal
\* event to the progress callback, as its last event: stage=complete when
\* the run returned normally (the provider answering no rows included),
\* stage=error when it raised; the event carries the saved, updated and
\* skipped counts of the run.
C14_OneTerminalEvent ==
    history.last.outcome # "none" =>
        LET events == history.last.events
            terminal == events[Len(events)]
        IN /\ TerminalEvents(events) = {Len(events)}
           /\ terminal.stage = IF history.last.outcome = "error" THEN "error" ELSE "complete"
           /\ terminal.saved = history.last.saved_count
           /\ terminal.updated = history.last.updated_count
           /\ terminal.skipped = history.last.skipped_count

\* C15: in every ingestion run each fetched row is counted exactly once, as
\* saved, updated or skipped, or, when its processing raised, as none of
\* them, and the rows after a failed row are processed: while the loop runs
\* the four numbers add up to the rows gone through, saved + updated +
\* skipped never exceeds the number of fetched rows, and in a completed run
\* saved + updated + skipped + failed is the number of fetched rows.
C15_FailedRowsCountedNowhere ==
    /\ run.pc = "processing" =>
          /\ run.saved_count + run.updated_count + run.skipped_count + run.failed_count
               = run.index - 1
          /\ run.saved_count + run.updated_count + run.skipped_count <= Len(run.df)
    /\ history.last.outcome = "complete" =>
          /\ history.last.saved_count + history.last.updated_count
               + history.last.skipped_count + history.last.failed_count
               = Len(history.last.df)
          /\ history.last.saved_count + history.last.updated_count
               + history.last.skipped_count <= Len(history.last.df)

\* A completed run whose first row failed and whose second row was skipped,
\* after a run that counted a row as saved.
C15_Witness ==
    /\ history.last.outcome = "complete"
    /\ Len(history.last.df) = 2
    /\ history.last.failed_count = 1
    /\ history.last.skipped_count = 1
    /\ history.last.df[1] = BadCell
    /\ history.before.saved_count = 1
    /\ history.before.failed_count = 1

\* The open, non-deleted rows of a logical key of the asset or data_source
\* table.
CurrentVersions(table, k) == {r \in OpenRowsOf(table, k) : ~r.is_deleted}

\* The scope does not allow an ingestion: no current non-deleted asset
\* version, or one without a symbol, or no current non-deleted data source
\* version, or one whose provider is not Nasdaq's.
ScopeUnfit(asset_id, data_source_id) ==
    \/ CurrentVersions(asset, asset_id) = {}
    \/ CurrentVersions(data_source, data_source_id) = {}
    \/ \E d \in CurrentVersions(data_source, data_source_id) : d.provider # "NASDAQ"
    \/ \E a \in CurrentVersions(asset, asset_id) : a.attributes = ""

\* C16: an ingest_nasdaq_data call for an asset without a current non-deleted
\* version or without a symbol, or for a data source without a current
\* non-deleted version or of another provider than Nasdaq, raises an error,
\* fetches nothing from the provider and leaves the data table as it was.
C16_UnfitScopeRaises ==
    [][(run.pc = "idle" /\ (run'.pc = "processing" \/ history'.runs # history.runs)) =>
          LET call == IF run'.pc = "processing" THEN run' ELSE history'.last
          IN ScopeUnfit(call.asset_id, call.data_source_id) =>
                /\ run'.pc = "idle"
                /\ history'.last.outcome = "error"
                /\ history'.last.fetches = 0
                /\ data' = data]_vars

\* A call for a live asset without a symbol raised before the fetch, after a
\* call for an asset id that does not exist did.
C16_Witness ==
    /\ history.last.outcome = "error"
    /\ history.last.raised = "no symbol"
    /\ history.last.fetches = 0
    /\ history.before.raised = "asset not found"
    /\ data = {}

\* C17: an ingest_nasdaq_data call whose provider fetch raises ends with an
\* error raised to its caller, and the data table after the call is the one
\* before it.
C17_FetchFailureLeavesData ==
    [][(history'.runs # history.runs /\ history'.last.raised = "fetch failed") =>
          /\ history'.last.outcome = "error"
          /\ history'.last.fetches = 1
          /\ run'.pc = "idle"
          /\ data' = data]_vars

\* A call failed at the fetch after an earlier call had stored rows.
C17_Witness ==
    /\ history.last.raised = "fetch failed"
    /\ history.last.outcome = "error"
    /\ history.before.outcome = "complete"
    /\ history.before.saved_count > 0
    /\ data # {}

\* A step of a run whose progress callback returns on every event.
CallbackReturnsStep ==
    \/ StartIngestionStep(Reads(clock, FaultClock), Faults, FALSE)
    \/ ProcessRowStep(FaultClock, Faults, FALSE)
    \/ CompleteIngestionStep(Faults, FALSE)

\* C18: whatever invocations of the progress callback raise, every step of
\* an ingestion run is the step the run takes when the callback never
\* raises: it writes the same rows, leaves the same saved, updated and
\* skipped counts and ends with the same outcome.
C18_CallbackFailuresChangeNothing ==
    [][CallbackReturnsStep]_vars

\* A run completed with rows saved although the callback raised on its
\* completion event.
C18_Witness ==
    /\ last = Callback(TRUE)
    /\ run.pc = "idle"
    /\ history.last.outcome = "complete"
    /\ history.last.saved_count > 0

\* C19: every request POST /ingest/nasdaq has answered got a response with a
\* session identifier, and a background task was created that runs the
\* ingestion of the request under that session identifier.
C19_StartAnswersSessionId ==
    \A i \in DOMAIN api.responses :
        LET response == api.responses[i]
        IN /\ response.status_code = 200
           /\ response.session_id # None
           /\ \E task \in api.tasks :
                 /\ task.session_id = response.session_id
                 /\ task.asset_id = response.request.asset_id
                 /\ task.data_source_id = response.request.data_source_id

\* The versions of a scope that are not deleted and valid at t.
ValidVersions(rows, asset_id, data_source_id, t) ==
    {r \in partition(rows, asset_id, data_source_id) :
        ~r.is_deleted /\ r.valid_from <= t /\ EndOf(r) > t}

MergeAssetPayloads ==
    {[k \in ks |-> p[k]] :
        p \in [name : {"n1", "n2"}, description : {"d1", "d2"},
               attributes : Symbols \cup {""}],
        ks \in SUBSET {"name", "description", "attributes"}}

MergeDataSourcePayloads ==
    {[k \in ks |-> p[k]] :
        p \in [name : {"s1", "s2"}, description : {"d1", "d2"},
               provider : Providers, attributes : {"", "k"}],
        ks \in SUBSET {"name", "description", "provider", "attributes"}}

\* The key's open version is a live one (not a deletion marker).
LiveVersions(table, k) == {r \in OpenRowsOf(table, k) : ~r.is_deleted}

\* What an update owes a key with the live version o: o closed at `now`, and
\* one new open live version starting at `now`, each field taken from the
\* payload when the payload holds it and from o otherwise; nothing else changes.
ClosesAndMerges(rows, res, k, updated_data, now, fields) ==
    \A o \in LiveVersions(rows, k) :
        /\ res.out = "updated"
        /\ \E n \in res.ret :
              /\ res.ret = {n}
              /\ n.id = k
              /\ n.valid_from = now
              /\ n.valid_to = FAR_FUTURE_DATE
              /\ ~n.is_deleted
              /\ \A f \in fields :
                    n[f] = IF f \in DOMAIN updated_data THEN updated_data[f] ELSE o[f]
              /\ res.rows = (rows \ {o}) \cup {[o EXCEPT !.valid_to = now]} \cup {n}

C22_UpdateRefusedWithoutLiveVersion ==
    [][/\ (last'.op = "update_asset" /\ LiveVersions(asset, last'.id) = {})
            => (last'.out = "error" /\ asset' = asset)
       /\ (last'.op = "update_data_source" /\ LiveVersions(data_source, last'.id) = {})
            => (last'.out = "error" /\ data_source' = data_source)
       /\ last'.op \in {"update_asset", "update_data_source"} /\ last'.out = "error"
            => (asset' = asset /\ data_source' = data_source /\ data' = data)]_vars

\* C22 witness: update_asset was refused on a soft-deleted key that had been
\* updated before its deletion.
C22_Witness ==
    /\ last.op = "update_asset"
    /\ last.out = "error"
    /\ Cardinality(RowsOf(asset, last.id)) = 3
    /\ \E r \in OpenRowsOf(asset, last.id) : r.is_deleted

\* The key has an open deletion marker.
OpenDeletionMarker(table, k) == \E r \in OpenRowsOf(table, k) : r.is_deleted

\* markDeleted's precondition fails: no live current version, or an open
\* deletion marker.
DeleteUnfit(table, k) == LiveVersions(table, k) = {} \/ OpenDeletionMarker(table, k)

\* C23: mark_deleted (repository), mark_asset_deleted and
\* mark_data_source_deleted (service) on a key that has no current version,
\* whose current version is deleted, or that has an open deletion marker fail
\* with a precondition error and append no row.
C23_DeleteRefusedWithError ==
    [][/\ (last'.op \in {"mark_deleted", "mark_asset_deleted"} /\ DeleteUnfit(asset, last'.id))
            => (last'.out = "error" /\ asset' = asset)
       /\ (last'.op = "mark_data_source_deleted" /\ DeleteUnfit(data_source, last'.id))
            => (last'.out = "error" /\ data_source' = data_source)]_vars

\* C24: resurrect_asset / resurrect_data_source on a key that has no rows, or
\* whose open version is not a deletion marker, fails with an error and
\* leaves every stored row as it was.
C24_ResurrectRefusedUnlessDeleted ==
    [][/\ (last'.op = "resurrect_asset" /\ ~OpenDeletionMarker(asset, last'.id))
            => (last'.out = "error" /\ asset' = asset)
       /\ (last'.op = "resurrect_data_source" /\ ~OpenDeletionMarker(data_source, last'.id))
            => (last'.out = "error" /\ data_source' = data_source)
       /\ last'.op \in {"resurrect_asset", "resurrect_data_source"} /\ last'.out = "error"
            => (asset' = asset /\ data_source' = data_source /\ data' = data)]_vars

\* C24 witness: resurrect_asset was refused on a key whose open version is a
\* live one that succeeded a closed deletion marker.
C24_Witness ==
    /\ last.op = "resurrect_asset"
    /\ last.out = "error"
    /\ LiveVersions(asset, last.id) # {}
    /\ \E r \in RowsOf(asset, last.id) : r.is_deleted /\ ~IsOpen(r)

\* The business dates of a scope that have an open, non-deleted version.
StoredDays(rows, asset_id, data_source_id) ==
    {r.business_date : r \in {q \in partition(rows, asset_id, data_source_id) :
                                  IsOpen(q) /\ ~q.is_deleted}}

\* The business dates of the records a time-series read of the whole range
\* returns.
SeriesDays(asset_rows, rows, asset_id, data_source_id, t) ==
    LET series == get_time_series_data(asset_rows, rows, asset_id, data_source_id,
                                       PyValue("date", 1), PyValue("date", MaxDays), t)
    IN {series[i].business_date.day : i \in DOMAIN series}

C26_CoverageOfCurrentVersions ==
    \A asset_id \in AssetIds, data_source_id \in DataSourceIds :
        LET days == SeriesDays(asset, data, asset_id, data_source_id, clock)
            coverage == get_data_coverage_period(data, asset_id, data_source_id, FALSE)
        IN /\ days = StoredDays(data, asset_id, data_source_id)
           /\ coverage = {} <=> days = {}
           /\ \A period \in coverage :
                 /\ period[1].day \in days
                 /\ period[2].day \in days
                 /\ \A d \in days : period[1].day <= d /\ d <= period[2].day

\* --------------------------------------------------- concurrency claims
\* C27: two concurrent update_asset callers on one key, each issuing its
\* close and then its insert, can leave two versions open at once; in every
\* state with more than one open version, get_asset_by_id returns the open
\* version of greatest valid_from, and no other row of the key shares its
\* valid_from.
C27_RacingUpdatesResolveToLatest ==
    \A k \in AssetIds :
        Cardinality(OpenRowsOf(asset, k)) >= 2 =>
            \E top \in OpenRowsOf(asset, k) :
                /\ \A r \in RowsOf(asset, k) : r # top => r.valid_from # top.valid_from
                /\ \A r \in OpenRowsOf(asset, k) : r.valid_from <= top.valid_from
                /\ \A t \in {clock, clock + 1} : get_asset_by_id(asset, k, t) = {top}

\* C27 witness: both callers' updates have returned, and the key has two open
\* versions that differ in the symbol.
C27_Witness ==
    /\ \A c \in Callers : callers[c].op = "update_asset" /\ callers[c].out = "updated"
    /\ \E r1 \in OpenRowsOf(asset, 1), r2 \in OpenRowsOf(asset, 1) :
          r1.valid_from < r2.valid_from /\ r1.attributes # r2.attributes

\* The caller's step 1: its frame goes from before the close to after it.
Closes(c) == callers[c].pc \in {"timed", "checked"} /\ callers'[c].pc = "closed"

\* C28: when update_asset, mark_deleted or resurrect_asset closes the one
\* open version of its key, the key has no open version from that append
\* until the operation's insert, and get_asset_by_id called in that window
\* returns None, also for the live asset an update is rewriting.
C28_WindowWithoutOpenVersion ==
    [][\A c \in Callers :
          (Closes(c) /\ OpenRowsOf(asset, callers[c].asset_id) = callers[c].current_asset)
              => /\ OpenRowsOf(asset', callers[c].asset_id) = {}
                 /\ \A t \in {clock', clock' + 1} :
                       get_asset_by_id(asset', callers[c].asset_id, t) = {}]_vars

\* C28 witness: an update has closed the live version it resolved and not yet
\* inserted its successor, no other caller is writing, and a reader gets None.
C28_Witness ==
    \E c \in Callers :
        /\ callers[c].pc = "closed"
        /\ callers[c].op = "update_asset"
        /\ \A r \in callers[c].current_asset : ~r.is_deleted
        /\ \A d \in Callers \ {c} : callers[d].pc \in {"idle", "done"}
        /\ OpenRowsOf(asset, 1) = {}
        /\ get_asset_by_id(asset, 1, clock) = {}
        /\ get_asset_by_id_including_deleted(asset, 1) # {}

\* The caller's step 2 fails: the store raised on the insert of the new
\* version after the close went through.
Torn(c) == callers[c].pc = "closed" /\ callers'[c].out = "torn"

\* No caller but c has called an operation.
SoleWriter(c) == \A d \in Callers \ {c} : callers[d].calls = 0

\* C29 (as stated): a lifecycle operation whose close succeeded and whose
\* insert failed leaves its key with two open-looking rows.
C29_TornLeavesTwoOpenRows ==
    [][\A c \in Callers :
          Torn(c) => Cardinality(OpenRowsOf(asset', callers[c].asset_id)) = 2]_vars

\* C29 (amended): a lifecycle operation whose close succeeded and whose insert
\* failed raises and appends nothing after the close; when no other caller
\* writes to the key, the version it resolved stays closed at the operation's
\* now, the key has no open row and get_asset_by_id returns None.
C29_TornLeavesNoOpenRow ==
    [][\A c \in Callers :
          Torn(c) =>
              /\ asset' = asset
              /\ callers'[c].pc = "done"
              /\ SoleWriter(c) =>
                    /\ closed_version(callers[c]) \in asset'
                    /\ opened_version(callers[c]) \notin asset'
                    /\ OpenRowsOf(asset', callers[c].asset_id) = {}
                    /\ \A t \in {clock', clock' + 1} :
                          get_asset_by_id(asset', callers[c].asset_id, t) = {}]_vars

\* C29 witness: the only writer's update of a live asset has failed on its
\* insert, and the key, which has rows, has no open one.
C29_Witness ==
    \E c \in Callers :
        /\ callers[c].out = "torn"
        /\ callers[c].op = "update_asset"
        /\ SoleWriter(c)
        /\ \A r \in callers[c].current_asset : ~r.is_deleted
        /\ closed_version(callers[c]) \in asset
        /\ OpenRowsOf(asset, 1) = {}

\* C30: when two callers have each made one mark_deleted call on a key that
\* was live when the first of them resolved it, the key has exactly one open
\* deletion marker and at most one of the calls appended rows.
C30_RacingDeletesLeaveOneMarker ==
    (/\ \A c \in Callers : /\ callers[c].pc = "done"
                           /\ callers[c].op = "mark_deleted"
                           /\ callers[c].calls = 1
     /\ \E c \in Callers : callers[c].current_asset # {})
        => /\ Cardinality({r \in OpenRowsOf(asset, 1) : r.is_deleted}) = 1
           /\ Cardinality({c \in Callers : callers[c].out = "deleted"}) <= 1

\* C31: two callers whose create_asset calls (or whose create_data_source
\* calls) both created an entity hold distinct ids, and each id has the one
\* version its create inserted.
C31_RacingCreatesGetDistinctIds ==
    \A c \in Callers, d \in Callers :
        (/\ c # d
         /\ callers[c].op \in {"create_asset", "create_data_source"}
         /\ callers[d].op = callers[c].op
         /\ callers[c].out = "created"
         /\ callers[d].out = "created")
            => /\ callers[c].asset_id # callers[d].asset_id
               /\ LET table == IF callers[c].op = "create_asset" THEN asset ELSE data_source
                  IN Cardinality(RowsOf(table, callers[c].asset_id)) = 1

\* saved + updated + skipped of a run.
Processed(r) == r.saved_count + r.updated_count + r.skipped_count

\* C32: every iteration of the row loop that brings the number of processed
\* rows (saved + updated + skipped) to a multiple of PROGRESS_UPDATE_INTERVAL
\* sends one processing event with the counts after that row.
C32_ProgressEveryInterval ==
    [][(/\ run.pc = "processing"
        /\ run'.pc = "processing"
        /\ Processed(run') # Processed(run)
        /\ Processed(run') % PROGRESS_UPDATE_INTERVAL = 0)
           => run'.events = Append(run.events,
                                   Event("processing", Processed(run'), Len(run'.df),
                                         run'.saved_count, run'.updated_count,
                                         run'.skipped_count))]_vars

\* A version without its representation of "open".
Canonical(row) == IF row.valid_to = None THEN [row EXCEPT !.valid_to = FAR_FUTURE_DATE] ELSE row

\* What the readers answer on two tables, up to the representation of an
\* open valid_to in the versions they return: get_asset_by_id,
\* get_all_assets, get_asset_at_date, get_time_series_data at every time, and
\* mark_deleted's scan for an open deletion marker.
SameAnswers(asset1, data1, asset2, data2) ==
    /\ \A t \in 0..(SentinelClock + 2) :
          /\ {Canonical(r) : r \in get_asset_by_id(asset1, 1, t)}
                = {Canonical(r) : r \in get_asset_by_id(asset2, 1, t)}
          /\ {Canonical(r) : r \in get_all_assets(asset1, t)}
                = {Canonical(r) : r \in get_all_assets(asset2, t)}
          /\ {Canonical(r) : r \in get_asset_at_date(asset1, 1, t)}
                = {Canonical(r) : r \in get_asset_at_date(asset2, 1, t)}
          /\ LET series1 == get_time_series_data(asset1, data1, 1, 1,
                                PyValue("date", 1), PyValue("date", MaxDays), t)
                 series2 == get_time_series_data(asset2, data2, 1, 1,
                                PyValue("date", 1), PyValue("date", MaxDays), t)
             IN [i \in DOMAIN series1 |-> Canonical(series1[i])]
                   = [i \in DOMAIN series2 |-> Canonical(series2[i])]
    /\ has_active_deletion(asset1, 1) = has_active_deletion(asset2, 1)

\* C33: storing an open row's valid_to in the other representation (null
\* for FAR_FUTURE_DATE or FAR_FUTURE_DATE for null) changes no answer of
\* get_asset_by_id, get_all_assets, get_asset_at_date, get_time_series_data
\* or mark_deleted's open-deletion-marker scan.
C33_OpenRepresentationsAgree ==
    [][SameAnswers(asset, data, asset', data')]_vars

\* C33 witness: after a replacement, the asset resolves to a version stored
\* with a null valid_to beside an open deletion marker stored with the
\* sentinel, and the series returns a row stored with a null valid_to.
C33_Witness ==
    /\ last.op = "replace_valid_to"
    /\ \E r \in get_asset_by_id(asset, 1, clock) : r.valid_to = None
    /\ \E m \in asset : m.is_deleted /\ m.valid_to = FAR_FUTURE_DATE
    /\ has_active_deletion(asset, 1)
    /\ LET series == get_time_series_data(asset, data, 1, 1,
                         PyValue("date", 1), PyValue("date", MaxDays), clock)
       IN Len(series) = 1 /\ series[1].valid_to = None

\* The key's current state is soft-deleted: it has an open version and every
\* open version of it is a deletion marker.
SoftDeleted(table, k) ==
    /\ OpenRowsOf(table, k) # {}
    /\ \A r \in OpenRowsOf(table, k) : r.is_deleted

\* C34: while the asset is soft-deleted, get_time_series_data
\* (include_deleted = False) returns the empty list for every data source,
\* whatever rows are stored for the asset.
C34_NoSeriesWhileDeleted ==
    \A k \in AssetIds, s \in DataSourceIds, t \in {clock, clock + 1} :
        SoftDeleted(asset, k)
            => get_time_series_data(asset, data, k, s, PyValue("date", 1),
                                    PyValue("date", MaxDays), t) = <<>>

\* C35: get_by_provider answers no data source whose current state is
\* deleted, and _get_data_source_id returns no id whose current state is
\* deleted.
C35_ProviderLookupSkipsDeleted ==
    \A provider \in Providers :
        /\ \A d \in get_by_provider(data_source, provider, FALSE) :
              ~SoftDeleted(data_source, d.id)
        /\ \A res \in _get_data_source_id(data_source, provider, FALSE, clock) :
              ~SoftDeleted(res.rows, res.ret)

\* The list and the resolver of one table agree at time t: the list holds a
\* version of id k exactly when the resolver returns one for k, the same one,
\* and the list holds one version per id.
ListAgrees(list, resolved(_), ids) ==
    /\ \A a \in list : a.id \in ids
    /\ \A k \in ids : {a \in list : a.id = k} = resolved(k)

\* C36: in every state and at every time from the clock reading on,
\* get_all_assets returns an asset of id k exactly when get_asset_by_id(k)
\* returns a version, and then that same version; likewise
\* get_all_data_sources and get_data_source_by_id.
C36_ListAgreesWithResolver ==
    \A t \in {clock, clock + 1} :
        /\ LET resolved(k) == get_asset_by_id(asset, k, t)
           IN ListAgrees(get_all_assets(asset, t), resolved, AssetIds \cup {r.id : r \in asset})
        /\ LET resolved(k) == get_data_source_by_id(data_source, k, t)
           IN ListAgrees(get_all_data_sources(data_source, t), resolved,
                         DataSourceIds \cup {r.id : r \in data_source})

\* C36 witness: one asset is soft-deleted and left out of the list, another
\* has been updated and is listed with its latest version.
C36_Witness ==
    \E k1 \in AssetIds, k2 \in AssetIds :
        /\ SoftDeleted(asset, k1)
        /\ \A a \in get_all_assets(asset, clock) : a.id # k1
        /\ Cardinality(RowsOf(asset, k2)) >= 2
        /\ \E a \in get_all_assets(asset, clock) : a.id = k2 /\ a.valid_from = clock

\* Some operation called at time t on key k of the table succeeds and leaves
\* k with exactly one open version: an update, a soft deletion, a
\* resurrection, or a create carrying a symbol of the key.
Recovers(rows, k, t) ==
    \/ \E updated_data \in AssetUpdatePayloads :
          LET res == update_asset(rows, k, updated_data, t, t)
          IN res.out = "updated" /\ Cardinality(OpenRowsOf(res.rows, k)) = 1
    \/ LET res == mark_deleted(rows, k, t, t)
       IN res.out = "deleted" /\ Cardinality(OpenRowsOf(res.rows, k)) = 1
    \/ \E updated_data \in AssetUpdatePayloads :
          LET res == resurrect_asset(rows, k, updated_data, t)
          IN res.out = "resurrected" /\ Cardinality(OpenRowsOf(res.rows, k)) = 1
    \/ \E asset_data \in AssetCreatePayloads :
          /\ \E r \in RowsOf(rows, k) :
                r.attributes # "" /\ upper(r.attributes) = upper(asset_data.attributes)
          /\ \E res \in create_asset(rows, asset_data, t) :
                /\ res.out \in {"created", "resurrected"}
                /\ Cardinality(OpenRowsOf(res.rows, k)) = 1

\* C37: between the operations of one caller whose store appends may fail,
\* every key that has rows can be brought back to exactly one open version by
\* an update, a soft deletion, a resurrection or a create with its symbol.
C37_KeyStaysUsable ==
    (\E c \in Callers : SoleWriter(c) /\ callers[c].pc \in {"idle", "done"})
        => \A k \in AssetIds : RowsOf(asset, k) # {} => Recovers(asset, k, clock + 1)

\* C38: a save_with_temporal_logic call that answers False, at any store
\* failure, for any scope, business date and clock reading, leaves the open
\* versions of that date as they were.
C38_FailedSaveKeepsCurrentVersion ==
    \A asset_id \in AssetIds, data_source_id \in DataSourceIds, day \in Days,
       now \in {clock, clock + 1}, failure \in StoreFailures :
        LET new_data == Data(asset_id, data_source_id, PyValue("date", day),
                             now, FALSE, now, FAR_FUTURE_DATE)
            res == save_with_temporal_logic(data, new_data, now, failure)
        IN ~res.ret => OpenVersions(res.rows, asset_id, data_source_id, day)
                          = OpenVersions(data, asset_id, data_source_id, day)

\* C39: no two asset ids have current, non-deleted versions that carry the
\* same symbol, compared in upper case.
C39_CurrentSymbolsUnique ==
    \A k1 \in AssetIds, k2 \in AssetIds :
        k1 # k2 =>
            \A v1 \in get_asset_by_id(asset, k1, clock), v2 \in get_asset_by_id(asset, k2, clock) :
                v1.attributes # "" => upper(v1.attributes) # upper(v2.attributes)

====
